---------------------------- MODULE Spec2Model ----------------------------
(***************************************************************************)
(* Model of the river-intersection and flood-buffer engine of              *)
(* src/backend/river_geometry.py, and of apply_aoi_scale of                *)
(* src/backend/main.py.                                                    *)
(*                                                                         *)
(* Units.  Every coordinate of the registry is a multiple of 0.1 degree,   *)
(* so a coordinate is modelled as an integer number of tenths of a degree  *)
(* (842 stands for the float 84.2), within 3600 tenths of zero.  The       *)
(* comparisons of is_point_in_polygon and segments_intersect are those of  *)
(* the floats: where the exact values differ the integers decide, since    *)
(* the gap exceeds the rounding error, and where they are equal the float  *)
(* arithmetic is carried out bit for bit.                                  *)
(* River widths are integers in metres.  A point is a pair <<lon, lat>>.   *)
(* The floats of the buffer formulas are modelled as exact fractions        *)
(* [num, den] in lowest terms.                                             *)
(***************************************************************************)
EXTENDS Integers, Sequences, FiniteSets, TLC

VARIABLES
    RIVER_NETWORKS,   \* the module-level registry dict (region -> rivers)
    pc,               \* position of the caller of check_river_intersection
    region,           \* argument of the current call
    polygon_rings,    \* argument of the current call (the AOI rings)
    results,          \* value returned by the call (a sequence of results)
    cache,            \* the lru_cache of get_flood_geometry, oldest entry first
    next_unknown,     \* index of the next unregistered region to be asked for
    evictions,        \* history: the keys evicted from the cache so far
    callers,          \* the calls of get_flood_geometry of each client
    op,               \* the function of the current single call
    arg,              \* the arguments of the current single call
    ret               \* what the current single call returned or raised

vars == <<RIVER_NETWORKS, pc, region, polygon_rings, results,
          cache, next_unknown, evictions, callers, op, arg, ret>>

-----------------------------------------------------------------------------
(* Helpers on sequences and sets of integers *)

SetMin(S) == CHOOSE m \in S : \A k \in S : m <= k

SetMax(S) == CHOOSE m \in S : \A k \in S : m >= k

Abs(a) == IF a < 0 THEN -a ELSE a

Min2(a, b) == IF a <= b THEN a ELSE b

Max2(a, b) == IF a >= b THEN a ELSE b

SeqsUpTo(S, n) == UNION {[1..k -> S] : k \in 0..n}

-----------------------------------------------------------------------------
(* The registry: RiverSegment and RIVER_NETWORKS *)

RiverSegment(name, coordinates, avg_width_m) ==
    [name |-> name, coordinates |-> coordinates,
     avg_width_m |-> avg_width_m, flood_prone |-> TRUE]

Regions == {"Bihar", "Uttarakhand", "Jharkhand", "Uttar Pradesh"}

BiharRivers ==
    << RiverSegment("Ganges", <<<<842, 256>>, <<845, 255>>, <<850, 254>>, <<853, 253>>, <<856, 252>>, <<860, 251>>, <<863, 250>>, <<866, 249>>, <<870, 248>>>>, 800),
       RiverSegment("Kosi", <<<<868, 265>>, <<867, 262>>, <<866, 259>>, <<865, 256>>, <<864, 253>>, <<863, 250>>>>, 400),
       RiverSegment("Gandak", <<<<840, 268>>, <<842, 265>>, <<845, 262>>, <<848, 259>>, <<850, 256>>, <<852, 253>>>>, 350),
       RiverSegment("Bagmati", <<<<855, 265>>, <<856, 262>>, <<857, 259>>, <<858, 256>>, <<859, 253>>>>, 250) >>

UttarakhandRivers ==
    << RiverSegment("Ganges", <<<<782, 301>>, <<785, 300>>, <<788, 299>>, <<791, 298>>, <<794, 297>>, <<797, 296>>>>, 600),
       RiverSegment("Yamuna", <<<<780, 309>>, <<782, 307>>, <<784, 305>>, <<786, 303>>, <<788, 301>>, <<790, 299>>>>, 500),
       RiverSegment("Alaknanda", <<<<790, 307>>, <<791, 305>>, <<792, 303>>, <<793, 301>>, <<794, 299>>>>, 300),
       RiverSegment("Bhagirathi", <<<<786, 310>>, <<787, 308>>, <<788, 306>>, <<789, 304>>, <<790, 302>>>>, 280) >>

JharkhandRivers ==
    << RiverSegment("Damodar", <<<<845, 240>>, <<848, 238>>, <<851, 236>>, <<854, 234>>, <<857, 232>>, <<860, 230>>, <<863, 228>>>>, 450),
       RiverSegment("Subarnarekha", <<<<850, 235>>, <<853, 233>>, <<856, 231>>, <<859, 229>>, <<862, 227>>>>, 350),
       RiverSegment("Koel", <<<<840, 238>>, <<843, 236>>, <<846, 234>>, <<849, 232>>, <<852, 230>>>>, 300) >>

UttarPradeshRivers ==
    << RiverSegment("Ganges", <<<<775, 295>>, <<780, 293>>, <<785, 290>>, <<790, 287>>, <<795, 284>>, <<800, 280>>, <<805, 277>>, <<810, 274>>, <<815, 270>>, <<820, 267>>, <<825, 264>>, <<830, 260>>, <<835, 257>>, <<840, 254>>>>, 900),
       RiverSegment("Yamuna", <<<<772, 304>>, <<775, 300>>, <<778, 296>>, <<781, 292>>, <<784, 288>>, <<787, 284>>, <<790, 280>>, <<793, 276>>, <<796, 272>>>>, 700),
       RiverSegment("Gomti", <<<<800, 285>>, <<803, 282>>, <<806, 279>>, <<809, 276>>, <<812, 273>>, <<815, 270>>>>, 400),
       RiverSegment("Ghaghra", <<<<815, 275>>, <<818, 272>>, <<821, 269>>, <<824, 266>>, <<827, 263>>, <<830, 260>>>>, 500) >>

\* The value of RIVER_NETWORKS when the module has been imported.
RiverNetworksAtImport ==
    [r \in Regions |->
        CASE r = "Bihar" -> BiharRivers
          [] r = "Uttarakhand" -> UttarakhandRivers
          [] r = "Jharkhand" -> JharkhandRivers
          [] r = "Uttar Pradesh" -> UttarPradeshRivers]

\* Mutant: an unknown region falls back to the rivers of a default region.
get_river_network_fallback(reg) ==
    IF reg \in DOMAIN RIVER_NETWORKS THEN RIVER_NETWORKS[reg]
    ELSE RIVER_NETWORKS["Bihar"]

\* RIVER_NETWORKS.get(region, [])
get_river_network(reg) ==
    IF reg \in DOMAIN RIVER_NETWORKS THEN RIVER_NETWORKS[reg] ELSE <<>>

-----------------------------------------------------------------------------
(* Python floats (IEEE 754 binary64, round to nearest, ties to even).       *)
(*                                                                         *)
(* A natural number of any size is a sequence of limbs in base 2^14, the    *)
(* least significant first; limbs of value zero may follow the top limb.    *)
(* A float is [sgn, man, exp] of value sgn * man * 2^exp with sgn in        *)
(* {-1, 0, 1} and, unless sgn = 0, a mantissa man of exactly 53 bits.       *)
(* Subnormals, infinities and NaN are outside the coordinates handled.      *)

LimbBase == 2 ^ 14

MantissaBits == 53

\* The sequence of the values of a function on 1..n.
Limbs(f) == f \o <<>>

\* The limb i of a, zero outside a.
BigLimb(a, i) == IF i >= 1 /\ i <= Len(a) THEN a[i] ELSE 0

\* The index of the most significant limb of a other than zero, 0 for zero.
BigTop(a) ==
    LET nz == {i \in 1..Len(a) : a[i] # 0}
    IN  IF nz = {} THEN 0 ELSE CHOOSE i \in nz : \A j \in nz : j <= i

\* The number of bits of a limb.
BitLen(n) == Cardinality({j \in 0..13 : 2 ^ j <= n})

\* The number of bits of a.
BigBitLen(a) ==
    LET top == BigTop(a)
    IN  IF top = 0 THEN 0 ELSE 14 * (top - 1) + BitLen(a[top])

\* The bit k of a, bit 0 the least significant.
BigBit(a, k) == (BigLimb(a, (k \div 14) + 1) \div (2 ^ (k % 14))) % 2

\* Whether the bits below bit k of a are all zero.
BigLowZero(a, k) ==
    /\ \A i \in 1..(k \div 14) : BigLimb(a, i) = 0
    /\ BigLimb(a, (k \div 14) + 1) % (2 ^ (k % 14)) = 0

\* -1, 0 or 1 as a < b, a = b or a > b.
BigCmp(a, b) ==
    LET diff == {i \in 1..Max2(Len(a), Len(b)) : BigLimb(a, i) # BigLimb(b, i)}
        top == CHOOSE i \in diff : \A j \in diff : j <= i
    IN  IF a = b \/ diff = {} THEN 0
        ELSE IF BigLimb(a, top) > BigLimb(b, top) THEN 1 ELSE -1

\* Whether a carry enters limb i of a + b: a lower limb overflows and every
\* limb in between is full.
BigCarry(a, b, i) ==
    \E j \in 1..(i - 1) :
        /\ BigLimb(a, j) + BigLimb(b, j) >= LimbBase
        /\ \A m \in (j + 1)..(i - 1) : BigLimb(a, m) + BigLimb(b, m) = LimbBase - 1

\* a + b
BigAdd(a, b) ==
    IF Len(a) = 0 THEN b
    ELSE Limbs([i \in 1..(Max2(Len(a), Len(b)) + 1) |->
                   (BigLimb(a, i) + BigLimb(b, i)
                    + IF BigCarry(a, b, i) THEN 1 ELSE 0) % LimbBase])

\* Whether a borrow enters limb i of a - b: a lower limb falls short and
\* every limb in between is level.
BigBorrow(a, b, i) ==
    \E j \in 1..(i - 1) :
        /\ BigLimb(a, j) < BigLimb(b, j)
        /\ \A m \in (j + 1)..(i - 1) : BigLimb(a, m) = BigLimb(b, m)

\* a - b for a >= b.
BigSub(a, b) ==
    Limbs([i \in 1..Len(a) |->
              (a[i] - BigLimb(b, i) - IF BigBorrow(a, b, i) THEN 1 ELSE 0)
              % LimbBase])

\* The number whose limb i counts v[i] times, each v[i] below 2^30.  Limb i
\* collects the low part of v[i], the middle part of v[i - 1] and the high
\* part of v[i - 2]; what exceeds a limb is added one limb up.
BigOfColumns(v) ==
    LET n == Len(v) + 2
        s == Limbs([i \in 1..n |->
                       (BigLimb(v, i) % LimbBase)
                       + ((BigLimb(v, i - 1) \div LimbBase) % LimbBase)
                       + (BigLimb(v, i - 2) \div (LimbBase * LimbBase))])
    IN  BigAdd(Limbs([i \in 1..n |-> s[i] % LimbBase]),
               <<0>> \o [i \in 1..n |-> s[i] \div LimbBase])

\* a * s for 0 <= s < 2^14: the low parts of the products a[i] * s, and
\* their high parts one limb up.
BigMulSmall(a, s) ==
    BigAdd(Limbs([i \in 1..Len(a) |-> (a[i] * s) % LimbBase]),
           <<0>> \o [i \in 1..Len(a) |-> (a[i] * s) \div LimbBase])

\* a * b for b of four limbs at most.
BigMul(a, b) ==
    BigOfColumns(Limbs([k \in 1..(Len(a) + 3) |->
                           BigLimb(a, k) * BigLimb(b, 1)
                           + BigLimb(a, k - 1) * BigLimb(b, 2)
                           + BigLimb(a, k - 2) * BigLimb(b, 3)
                           + BigLimb(a, k - 3) * BigLimb(b, 4)]))

\* a * 2^k
BigShl(a, k) ==
    LET w == k \div 14
        p == 2 ^ (k % 14)
    IN  IF k = 0 THEN a
        ELSE Limbs([i \in 1..(Len(a) + w + 1) |->
                       ((BigLimb(a, i - w) * p) % LimbBase)
                       + ((BigLimb(a, i - w - 1) * p) \div LimbBase)])

\* floor(a / 2^k)
BigShr(a, k) ==
    LET w == k \div 14
        p == 2 ^ (k % 14)
    IN  Limbs([i \in 1..(Len(a) - w) |->
                  (BigLimb(a, i + w) \div p)
                  + (BigLimb(a, i + w + 1) % p) * (LimbBase \div p)])

RECURSIVE BigDivSmallFrom(_, _, _)
BigDivSmallFrom(a, s, st) ==
    IF st.i = 0 THEN st
    ELSE LET t == st.r * LimbBase + a[st.i]
         IN  BigDivSmallFrom(a, s, [i |-> st.i - 1, r |-> t % s,
                                    q |-> <<t \div s>> \o st.q])

\* Quotient and remainder of a by s, for 0 < s <= 2^14.
BigDivSmall(a, s) == BigDivSmallFrom(a, s, [i |-> Len(a), r |-> 0, q |-> <<>>])

\* The quotient digit and the remainder of cur by d, for cur < 2^14 * d and
\* a divisor d of n limbs whose top limb is 2^13 at least: the quotient of
\* the top limbs exceeds the digit by two at most.
BigDivStep(cur, d) ==
    LET n == Len(d)
        est == Min2((BigLimb(cur, n + 1) * LimbBase + BigLimb(cur, n)) \div d[n],
                    LimbBase - 1)
        p0 == BigMulSmall(d, est)
        p1 == BigMulSmall(d, est - 1)
        p2 == BigMulSmall(d, est - 2)
    IN  IF BigCmp(p0, cur) <= 0
        THEN [q |-> est, r |-> SubSeq(BigSub(cur, p0), 1, n)]
        ELSE IF BigCmp(p1, cur) <= 0
        THEN [q |-> est - 1, r |-> SubSeq(BigSub(cur, p1), 1, n)]
        ELSE [q |-> est - 2, r |-> SubSeq(BigSub(cur, p2), 1, n)]

RECURSIVE BigDivFrom(_, _, _)
\* Long division: the limbs st.i, .., 1 of n are still to bring down after
\* the remainder st.r.
BigDivFrom(n, d, st) ==
    IF st.i = 0 THEN st
    ELSE LET step == BigDivStep(<<n[st.i]>> \o st.r, d)
         IN  BigDivFrom(n, d, [i |-> st.i - 1, q |-> <<step.q>> \o st.q,
                               r |-> step.r])

\* Quotient and remainder of n by d, for d with a top limb of 2^13 at least
\* and n of as many limbs as d at least whose top limbs are below d: those
\* above the lowest Len(n) - Len(d) start as the remainder.
BigDiv(n, d) ==
    BigDivFrom(n, d, [i |-> Len(n) - Len(d), q |-> <<>>,
                      r |-> SubSeq(n, Len(n) - Len(d) + 1, Len(n))])

(***************************************************************************)
(* A float is sgn * man * 2^exp with a mantissa of four limbs and exactly  *)
(* 53 bits, or zero.  The coordinates and what the primitives compute      *)
(* from them stay far inside the range of the normal numbers.              *)
(***************************************************************************)
FloatZero == [sgn |-> 0, man |-> <<>>, exp |-> 0]

Float(sgn, man, exp) == [sgn |-> sgn, man |-> SubSeq(man, 1, 4), exp |-> exp]

\* The float nearest to sgn * (n + t) * 2^e, for n > 0 and 0 <= t < 1, where
\* sticky tells whether t > 0 (n then has more than 53 bits); a tie goes to
\* the even mantissa.
FloatRound(sgn, n, e, sticky) ==
    LET len == BigBitLen(n)
        s == len - MantissaBits
        up == /\ BigBit(n, s - 1) = 1
              /\ (sticky \/ ~BigLowZero(n, s - 1) \/ BigBit(n, s) = 1)
        m == BigAdd(BigShr(n, s), <<1>>)
    IN  IF len = MantissaBits THEN Float(sgn, n, e)
        ELSE IF len < MantissaBits THEN Float(sgn, BigShl(n, -s), e + s)
        ELSE IF ~up THEN Float(sgn, BigShr(n, s), e + s)
        ELSE IF BigBitLen(m) > MantissaBits
        THEN Float(sgn, BigShr(m, 1), e + s + 1)
        ELSE Float(sgn, m, e + s)

\* The float of the decimal literal k / 10, k a number of tenths below 2^14
\* in size.
FloatOfDecimal(k) ==
    IF k = 0 THEN FloatZero
    ELSE LET d == BigDivSmall(<<0, 0, 0, 0, 0, Abs(k)>>, 10)
         IN  FloatRound(IF k > 0 THEN 1 ELSE -1, d.q, -70, d.r # 0)

\* The floats of 0.1, 0.2, .. up to 102.4, which cover the coordinates of
\* the registry.
FloatsOfTenths == Limbs([k \in 1..(LimbBase \div 16) |-> FloatOfDecimal(k)])

\* The float a coordinate of k tenths of a degree is in the code.
FloatOfTenths(k) ==
    IF k >= 1 /\ k <= Len(FloatsOfTenths) THEN FloatsOfTenths[k]
    ELSE FloatOfDecimal(k)

FloatNeg(a) == [a EXCEPT !.sgn = -a.sgn]

\* a + b
FloatAdd(a, b) ==
    IF a.sgn = 0 THEN b
    ELSE IF b.sgn = 0 THEN a
    ELSE LET e == Min2(a.exp, b.exp)
             m == BigShl(a.man, a.exp - e)
             n == BigShl(b.man, b.exp - e)
             c == BigCmp(m, n)
         IN  IF a.sgn = b.sgn THEN FloatRound(a.sgn, BigAdd(m, n), e, FALSE)
             ELSE IF c = 0 THEN FloatZero
             ELSE IF c = 1 THEN FloatRound(a.sgn, BigSub(m, n), e, FALSE)
             ELSE FloatRound(b.sgn, BigSub(n, m), e, FALSE)

\* a - b
FloatSub(a, b) == FloatAdd(a, FloatNeg(b))

\* a * b
FloatMul(a, b) ==
    IF a.sgn = 0 \/ b.sgn = 0 THEN FloatZero
    ELSE FloatRound(a.sgn * b.sgn, BigMul(a.man, b.man), a.exp + b.exp, FALSE)

\* a / b for b other than zero.  Four limbs hold a.man * 2^2, which is
\* below the divisor b.man * 2^3, whose top limb is full; the quotient
\* a.man * 2^58 / (b.man * 2^3) has 55 bits at least.
FloatDiv(a, b) ==
    IF a.sgn = 0 THEN FloatZero
    ELSE LET d == BigDiv(<<0, 0, 0, 0>> \o SubSeq(BigShl(a.man, 2), 1, 4),
                         SubSeq(BigShl(b.man, 3), 1, 4))
         IN  IF BigTop(d.r) = 0
             THEN FloatRound(a.sgn * b.sgn, d.q, a.exp - b.exp - 55, FALSE)
             ELSE FloatRound(a.sgn * b.sgn, d.q, a.exp - b.exp - 55, TRUE)

\* -1, 0 or 1 as a < b, a = b or a > b.
FloatCmp(a, b) ==
    IF a.sgn # b.sgn THEN (IF a.sgn > b.sgn THEN 1 ELSE -1)
    ELSE IF a.sgn = 0 THEN 0
    ELSE IF a.exp # b.exp THEN (IF a.exp > b.exp THEN a.sgn ELSE -a.sgn)
    ELSE a.sgn * BigCmp(a.man, b.man)

-----------------------------------------------------------------------------
(* Planar primitives *)

(***************************************************************************)
(* The local xinters of is_point_in_polygon is kept as the operands of     *)
(* the expression that assigned it,                                        *)
(*     xinters = (y - p1y) * (p2x - p1x) / (p2y - p1y) + p1x,              *)
(* and its float value is XintersFloat.                                    *)
(***************************************************************************)
Xinters(y, p1, p2) == [y |-> y, p1 |-> p1, p2 |-> p2]

\* The operands standing for xinters before its first assignment.
NoXinters == Xinters(0, <<0, 0>>, <<0, 1>>)

\* The only element of a singleton.
Only(S) == CHOOSE v \in S : TRUE

\* The floats of the expression in the order Python computes them.  Each
\* step is bound to its value before the next step reads it.
XintersSteps(xi) ==
    Only({[rise |-> s4.rise, run |-> s4.run, prod |-> s4.prod,
           height |-> s4.height, quot |-> s4.quot,
           xinters |-> FloatAdd(s4.quot, s4.p1x)] : s4 \in
         {[rise |-> s3.rise, run |-> s3.run, prod |-> s3.prod,
           height |-> s3.height, p1x |-> s3.p1x,
           quot |-> FloatDiv(s3.prod, s3.height)] : s3 \in
         {[rise |-> s2.rise, run |-> s2.run, height |-> s2.height,
           p1x |-> s2.p1x, prod |-> FloatMul(s2.rise, s2.run)] : s2 \in
         {[rise |-> FloatSub(s1.y, s1.p1y), run |-> FloatSub(s1.p2x, s1.p1x),
           height |-> FloatSub(s1.p2y, s1.p1y), p1x |-> s1.p1x] : s1 \in
         {[y |-> FloatOfTenths(c.y),
           p1x |-> FloatOfTenths(c.p1[1]), p1y |-> FloatOfTenths(c.p1[2]),
           p2x |-> FloatOfTenths(c.p2[1]), p2y |-> FloatOfTenths(c.p2[2])] :
          c \in {xi}}}}}})

XintersFloat(xi) == XintersSteps(xi).xinters

\* x <= xinters.  The exact values x and num / den differ by at least
\* 1 / den tenths when they differ at all, far more than the rounding of the
\* float expression, so the floats compare the same way; when the exact
\* values are equal the float rounding decides.  For y = p1y the rise is 0.0
\* and the float xinters is p1x itself.
LeXinters(x, xi) ==
    LET d == xi.p2[2] - xi.p1[2]
        rawnum == (xi.y - xi.p1[2]) * (xi.p2[1] - xi.p1[1]) + xi.p1[1] * d
        num == IF d > 0 THEN rawnum ELSE -rawnum
        den == IF d > 0 THEN d ELSE -d
    IN  IF x * den # num THEN x * den < num
        ELSE IF xi.y = xi.p1[2] THEN TRUE
        ELSE \E c \in {x} : \E fx \in {FloatOfTenths(c)} :
                 \E xinters \in {XintersFloat(xi)} : FloatCmp(fx, xinters) <= 0

(***************************************************************************)
(* The state of the loop of is_point_in_polygon: the 0-based index i of    *)
(* the next iteration, the parity flag, the previous point and the local   *)
(* xinters; assigned tells whether the last iteration ran the assignment   *)
(* of line 200, and stale whether the comparison of line 201 ever read     *)
(* xinters in an iteration that did not assign it.                         *)
(***************************************************************************)
PipStart(polygon) ==
    [i |-> 0, inside |-> FALSE, p1 |-> polygon[1], xinters |-> NoXinters,
     assigned |-> FALSE, stale |-> FALSE]

\* Mutant: the height test is min <= y < max.
PipStep_lowerclosed(x, y, st, p2) ==
    LET p1x == st.p1[1]
        p1y == st.p1[2]
        p2x == p2[1]
        p2y == p2[2]
        reached == y >= Min2(p1y, p2y) /\ y < Max2(p1y, p2y)
                   /\ x <= Max2(p1x, p2x)
        assign == reached /\ p1y # p2y
        xinters == IF assign THEN Xinters(y, st.p1, p2) ELSE st.xinters
        toggle == reached /\ (p1x = p2x \/ LeXinters(x, xinters))
    IN  [i |-> st.i + 1,
         inside |-> IF toggle THEN ~st.inside ELSE st.inside,
         p1 |-> p2, xinters |-> xinters,
         assigned |-> assign,
         stale |-> st.stale \/ (reached /\ ~assign /\ p1x # p2x)]

\* Mutant: the height test is min <= y <= max.
PipStep_closed(x, y, st, p2) ==
    LET p1x == st.p1[1]
        p1y == st.p1[2]
        p2x == p2[1]
        p2y == p2[2]
        reached == y >= Min2(p1y, p2y) /\ y <= Max2(p1y, p2y)
                   /\ x <= Max2(p1x, p2x)
        assign == reached /\ p1y # p2y
        xinters == IF assign THEN Xinters(y, st.p1, p2) ELSE st.xinters
        toggle == reached /\ (p1x = p2x \/ LeXinters(x, xinters))
    IN  [i |-> st.i + 1,
         inside |-> IF toggle THEN ~st.inside ELSE st.inside,
         p1 |-> p2, xinters |-> xinters,
         assigned |-> assign,
         stale |-> st.stale \/ (reached /\ ~assign /\ p1x # p2x)]

\* One iteration of the loop body (lines 195-203) for the point p2.
PipStep(x, y, st, p2) ==
    LET p1x == st.p1[1]
        p1y == st.p1[2]
        p2x == p2[1]
        p2y == p2[2]
        reached == y > Min2(p1y, p2y) /\ y <= Max2(p1y, p2y)
                   /\ x <= Max2(p1x, p2x)
        assign == reached /\ p1y # p2y
        xinters == IF assign THEN Xinters(y, st.p1, p2) ELSE st.xinters
        toggle == reached /\ (p1x = p2x \/ LeXinters(x, xinters))
    IN  [i |-> st.i + 1,
         inside |-> IF toggle THEN ~st.inside ELSE st.inside,
         p1 |-> p2, xinters |-> xinters,
         assigned |-> assign,
         stale |-> st.stale \/ (reached /\ ~assign /\ p1x # p2x)]

RECURSIVE PipLoop_nowrap(_, _, _, _)
\* Mutant: for i in range(n), the edge back to the first point is left out.
PipLoop_nowrap(x, y, polygon, st) ==
    IF st.i > Len(polygon) - 1 THEN st
    ELSE PipLoop_nowrap(x, y, polygon,
                        PipStep(x, y, st, polygon[(st.i % Len(polygon)) + 1]))

RECURSIVE PipLoop(_, _, _, _)
\* for i in range(n + 1): p2 = polygon[i % n]
PipLoop(x, y, polygon, st) ==
    IF st.i > Len(polygon) THEN st
    ELSE PipLoop(x, y, polygon,
                 PipStep(x, y, st, polygon[(st.i % Len(polygon)) + 1]))

is_point_in_polygon(x, y, polygon) ==
    PipLoop(x, y, polygon, PipStart(polygon)).inside

\* The outcome of a raised IndexError.
IndexError == [raised |-> TRUE, value |-> [type |-> "IndexError"]]

\* The outcome of a call of is_point_in_polygon: polygon[0] (line 193)
\* raises IndexError for a polygon without points; stale tells whether the
\* comparison read an xinters the iteration had not assigned.
is_point_in_polygon_call(x, y, polygon) ==
    IF Len(polygon) = 0 THEN IndexError
    ELSE LET st == PipLoop(x, y, polygon, PipStart(polygon))
         IN  [raised |-> FALSE, value |-> st.inside, stale |-> st.stale]

\* The float product (a2 - a1) * (b2 - b1) of coordinates in tenths, each
\* step bound to its value before the next step reads it.
FloatCross(a1, a2, b1, b2) ==
    Only({FloatMul(s2.a, s2.b) : s2 \in
         {[a |-> FloatSub(s1.a2, s1.a1), b |-> FloatSub(s1.b2, s1.b1)] : s1 \in
         {[a1 |-> FloatOfTenths(c[1]), a2 |-> FloatOfTenths(c[2]),
           b1 |-> FloatOfTenths(c[3]), b2 |-> FloatOfTenths(c[4])] :
          c \in {<<a1, a2, b1, b2>>}}}})

\* Exact products that differ differ by 0.01 at least, far more than the
\* rounding of the float products; when they are equal the rounding decides.
\* Equal products with a factor of zero are both 0.0 in floats too, and with
\* B = C the two float products have the same factors.
ccw(A, B, C) ==
    LET left == (C[2] - A[2]) * (B[1] - A[1])
        right == (B[2] - A[2]) * (C[1] - A[1])
    IN  IF left # right THEN left > right
        ELSE IF left = 0 \/ B = C THEN FALSE
        ELSE \E l \in {FloatCross(A[2], C[2], A[1], B[1])},
                r \in {FloatCross(A[2], B[2], A[1], C[1])} : FloatCmp(l, r) = 1

\* Mutant: the second comparison is an equality.
segments_intersect_sameside(p1, p2, p3, p4) ==
    (ccw(p1, p3, p4) # ccw(p2, p3, p4)) /\ (ccw(p1, p2, p3) = ccw(p1, p2, p4))

segments_intersect(p1, p2, p3, p4) ==
    (ccw(p1, p3, p4) # ccw(p2, p3, p4)) /\ (ccw(p1, p2, p3) # ccw(p1, p2, p4))

-----------------------------------------------------------------------------
(* check_river_intersection *)

MinRiverPoints == 2

MinRingPoints == 3

Xs(points) == {points[i][1] : i \in 1..Len(points)}

Ys(points) == {points[i][2] : i \in 1..Len(points)}

\* Mutant: the first test reads the ring's min_x where max_x is meant.
BBoxDisjoint_minx(ring, coords) ==
    \/ SetMin(Xs(ring)) < SetMin(Xs(coords))
    \/ SetMin(Xs(ring)) > SetMax(Xs(coords))
    \/ SetMax(Ys(ring)) < SetMin(Ys(coords))
    \/ SetMin(Ys(ring)) > SetMax(Ys(coords))

\* Lines 243-253: TRUE when the bounding boxes do not overlap (the ring is skipped).
BBoxDisjoint(ring, coords) ==
    \/ SetMax(Xs(ring)) < SetMin(Xs(coords))
    \/ SetMin(Xs(ring)) > SetMax(Xs(coords))
    \/ SetMax(Ys(ring)) < SetMin(Ys(coords))
    \/ SetMin(Ys(ring)) > SetMax(Ys(coords))

\* Lines 258-261: some river point is inside the ring.
AnyVertexInside(coords, ring) ==
    \E k \in 1..Len(coords) : is_point_in_polygon(coords[k][1], coords[k][2], ring)

\* Lines 268-280: i over range(len(coords) - 1), j over range(len(ring) - 1).
AnyEdgeCrossing(coords, ring) ==
    \E i \in 1..(Len(coords) - 1) : \E j \in 1..(Len(ring) - 1) :
        segments_intersect(coords[i], coords[i + 1], ring[j], ring[j + 1])

\* Mutant: only empty rings are skipped.
RingHits_nolen(river, ring) ==
    /\ Len(ring) > 0
    /\ ~BBoxDisjoint(ring, river.coordinates)
    /\ \/ AnyVertexInside(river.coordinates, ring)
       \/ AnyEdgeCrossing(river.coordinates, ring)

\* Mutant: the bounding-box test alone decides.
RingHits_bboxonly(river, ring) ==
    /\ Len(ring) >= MinRingPoints
    /\ ~BBoxDisjoint(ring, river.coordinates)

\* Lines 239-283: what one ring does to the flag `intersected`.
RingHits(river, ring) ==
    /\ Len(ring) >= MinRingPoints
    /\ ~BBoxDisjoint(ring, river.coordinates)
    /\ \/ AnyVertexInside(river.coordinates, ring)
       \/ AnyEdgeCrossing(river.coordinates, ring)

\* Mutant: the loop over the rings ends after its first ring.
Intersected_firstring(river, rings) ==
    /\ Len(river.coordinates) >= MinRiverPoints
    /\ Len(rings) > 0
    /\ RingHits(river, rings[1])

\* Lines 231-283: the value of `intersected` after the loop over the rings
\* (the loop breaks at the first ring that hits).
Intersected(river, rings) ==
    /\ Len(river.coordinates) >= MinRiverPoints
    /\ \E k \in 1..Len(rings) : RingHits(river, rings[k])

length_deg_tenths == 1

km_per_tenth_degree == 10

\* Mutant: the length grows with the number of centerline segments.
IntersectionResult_bylength(river) ==
    [river_name |-> river.name,
     intersection_length_km |->
         (Len(river.coordinates) - 1) * length_deg_tenths * km_per_tenth_degree,
     is_intersecting |-> TRUE]

\* Lines 293-301: the IntersectionResult appended for a river.
IntersectionResult(river) ==
    [river_name |-> river.name,
     intersection_length_km |-> length_deg_tenths * km_per_tenth_degree,
     is_intersecting |-> TRUE]

\* How many rings of the AOI hit the river.
HitCount(river, rings) ==
    Cardinality({k \in 1..Len(rings) : RingHits(river, rings[k])})

RECURSIVE Repeat(_, _)
Repeat(e, n) == IF n = 0 THEN <<>> ELSE <<e>> \o Repeat(e, n - 1)

RECURSIVE ScanRivers(_, _, _)
\* Lines 230-301: the loop over the rivers, from index i, appending in order.
ScanRivers(rivers, rings, i) ==
    IF i > Len(rivers) THEN <<>>
    ELSE (IF Intersected(rivers[i], rings)
          THEN <<IntersectionResult(rivers[i])>> ELSE <<>>)
         \o ScanRivers(rivers, rings, i + 1)

\* Mutant: a result is appended for every ring that hits (no break).
check_river_intersection_perring(reg, rings) ==
    LET rivers == get_river_network(reg)
        RECURSIVE S(_)
        S(i) == IF i > Len(rivers) THEN <<>>
                ELSE Repeat(IntersectionResult(rivers[i]), HitCount(rivers[i], rings))
                     \o S(i + 1)
    IN  S(1)

\* Mutant: the results are inserted at the front.
check_river_intersection_prepend(reg, rings) ==
    LET rivers == get_river_network(reg)
        RECURSIVE S(_)
        S(i) == IF i > Len(rivers) THEN <<>>
                ELSE S(i + 1) \o (IF Intersected(rivers[i], rings)
                                  THEN <<IntersectionResult(rivers[i])>> ELSE <<>>)
    IN  S(1)

check_river_intersection(reg, rings) ==
    LET rivers == get_river_network(reg)
    IN  IF Len(rivers) = 0 THEN <<>>
        ELSE IF Len(rings) = 0 THEN <<>>
        ELSE ScanRivers(rivers, rings, 1)

-----------------------------------------------------------------------------
(* Exact fractions, standing for the floats of the buffer formulas *)

RECURSIVE Gcd(_, _)
Gcd(a, b) == IF b = 0 THEN a ELSE Gcd(b, a % b)

\* The fraction n/d (d # 0) in lowest terms with a positive denominator.
Rat(n, d) ==
    LET g == Gcd(Abs(n), Abs(d))
        sgn == IF d < 0 THEN -1 ELSE 1
    IN  [num |-> (sgn * n) \div g, den |-> (sgn * d) \div g]

RatOfInt(n) == [num |-> n, den |-> 1]

RatAdd(a, b) == Rat(a.num * b.den + b.num * a.den, a.den * b.den)

RatSub(a, b) == Rat(a.num * b.den - b.num * a.den, a.den * b.den)

RatMul(a, b) == Rat(a.num * b.num, a.den * b.den)

RatDiv(a, b) == Rat(a.num * b.den, a.den * b.num)

RatLe(a, b) == a.num * b.den <= b.num * a.den

RatLt(a, b) == a.num * b.den < b.num * a.den

-----------------------------------------------------------------------------
(* calculate_buffer_distance, generate_flood_buffer, get_flood_geometry *)

Scenarios == {"0m", "1m", "2m"}

\* Lines 323-327: the table indexed by the scenario.
base_buffer_km(scenario) ==
    CASE scenario = "0m" -> Rat(1, 10)
      [] scenario = "1m" -> RatOfInt(3)
      [] scenario = "2m" -> RatOfInt(8)

\* Mutant: the "0m" result is left in metres.
calculate_buffer_distance_metres(scenario, river_width_m, terrain_slope_tenths) ==
    IF scenario \notin Scenarios THEN [raised |-> TRUE, km |-> RatOfInt(0)]
    ELSE LET base == base_buffer_km(scenario)
             width_factor == RatAdd(RatOfInt(1), Rat(river_width_m, 1000))
             clamped == Rat(Max2(terrain_slope_tenths, 1), 10)
             slope_factor == RatAdd(RatOfInt(1), RatDiv(RatOfInt(1), clamped))
         IN  [raised |-> FALSE,
              km |-> IF scenario = "0m"
                     THEN RatMul(RatOfInt(river_width_m), Rat(8, 10))
                     ELSE RatMul(RatMul(base, width_factor), slope_factor)]

\* Mutant: "0m" goes through the general formula with its base of 0.1.
calculate_buffer_distance_withbase(scenario, river_width_m, terrain_slope_tenths) ==
    IF scenario \notin Scenarios THEN [raised |-> TRUE, km |-> RatOfInt(0)]
    ELSE LET base == base_buffer_km(scenario)
             width_factor == RatAdd(RatOfInt(1), Rat(river_width_m, 1000))
             clamped == Rat(Max2(terrain_slope_tenths, 1), 10)
             slope_factor == RatAdd(RatOfInt(1), RatDiv(RatOfInt(1), clamped))
         IN  [raised |-> FALSE,
              km |-> RatMul(RatMul(base, width_factor), slope_factor)]

\* Mutant: the slope is not clamped to 0.1; a slope of zero raises
\* ZeroDivisionError.
calculate_buffer_distance_noclamp(scenario, river_width_m, terrain_slope_tenths) ==
    IF scenario \notin Scenarios THEN [raised |-> TRUE, km |-> RatOfInt(0)]
    ELSE IF scenario # "0m" /\ terrain_slope_tenths = 0
    THEN [raised |-> TRUE, km |-> RatOfInt(0)]
    ELSE LET base == base_buffer_km(scenario)
             width_factor == RatAdd(RatOfInt(1), Rat(river_width_m, 1000))
             slope == IF scenario = "0m" THEN RatOfInt(1)
                      ELSE Rat(terrain_slope_tenths, 10)
             slope_factor == RatAdd(RatOfInt(1), RatDiv(RatOfInt(1), slope))
         IN  [raised |-> FALSE,
              km |-> IF scenario = "0m"
                     THEN RatMul(Rat(river_width_m, 1000), Rat(8, 10))
                     ELSE RatMul(RatMul(base, width_factor), slope_factor)]

\* Mutant: a scenario outside the table gets the base of "1m".
calculate_buffer_distance_default(scenario, river_width_m, terrain_slope_tenths) ==
    LET base == IF scenario \in Scenarios THEN base_buffer_km(scenario) ELSE RatOfInt(3)
        width_factor == RatAdd(RatOfInt(1), Rat(river_width_m, 1000))
        clamped == Rat(Max2(terrain_slope_tenths, 1), 10)
        slope_factor == RatAdd(RatOfInt(1), RatDiv(RatOfInt(1), clamped))
    IN  [raised |-> FALSE,
         km |-> IF scenario = "0m"
                THEN RatMul(Rat(river_width_m, 1000), Rat(8, 10))
                ELSE RatMul(RatMul(base, width_factor), slope_factor)]

\* The slope is given in tenths of a degree; the result is in km.  A
\* scenario outside the table raises KeyError at the lookup.
calculate_buffer_distance(scenario, river_width_m, terrain_slope_tenths) ==
    IF scenario \notin Scenarios THEN [raised |-> TRUE, km |-> RatOfInt(0)]
    ELSE LET base == base_buffer_km(scenario)
             width_factor == RatAdd(RatOfInt(1), Rat(river_width_m, 1000))
             clamped == Rat(Max2(terrain_slope_tenths, 1), 10)
             slope_factor == RatAdd(RatOfInt(1), RatDiv(RatOfInt(1), clamped))
         IN  [raised |-> FALSE,
              km |-> IF scenario = "0m"
                     THEN RatMul(Rat(river_width_m, 1000), Rat(8, 10))
                     ELSE RatMul(RatMul(base, width_factor), slope_factor)]

km_per_degree == 111

default_elevation_factor == 1

\* Lines 373-379: the left wall, from centerline index i on; the first
\* point is preceded by a point shifted in latitude too.
RECURSIVE LeftWall(_, _, _)
LeftWall(coords, b, i) ==
    IF i > Len(coords) THEN <<>>
    ELSE LET lon == RatOfInt(coords[i][1])
             lat == RatOfInt(coords[i][2])
         IN  (IF i = 1 THEN << <<RatSub(lon, b), RatSub(lat, b)>> >> ELSE <<>>)
             \o << <<RatSub(lon, b), lat>> >>
             \o LeftWall(coords, b, i + 1)

\* Lines 382-384: the right wall, walking back from centerline index i.
RECURSIVE RightWall(_, _, _)
RightWall(coords, b, i) ==
    IF i < 1 THEN <<>>
    ELSE << <<RatAdd(RatOfInt(coords[i][1]), b), RatOfInt(coords[i][2])>> >>
         \o RightWall(coords, b, i - 1)

\* Mutant: the ring is not closed.
generate_flood_buffer_noclose(river, buffer_km) ==
    IF RatLe(buffer_km, RatOfInt(0)) \/ Len(river.coordinates) = 0
    THEN [type |-> "Polygon",
          coordinates |-> <<>>,
          properties |-> [river_name |-> river.name,
                          buffer_km |-> RatOfInt(0),
                          flood_prone |-> FALSE]]
    ELSE LET buffer_deg == RatMul(RatMul(RatDiv(buffer_km, RatOfInt(km_per_degree)),
                                         RatOfInt(default_elevation_factor)),
                                  RatOfInt(10))
             polygon_coords == LeftWall(river.coordinates, buffer_deg, 1)
                      \o RightWall(river.coordinates, buffer_deg, Len(river.coordinates))
         IN  [type |-> "Polygon",
              coordinates |-> IF Len(polygon_coords) > 0 THEN <<polygon_coords>> ELSE <<>>,
              properties |-> [river_name |-> river.name,
                              buffer_km |-> buffer_km,
                              flood_prone |-> river.flood_prone,
                              river_width_m |-> river.avg_width_m]]

\* Mutant: the empty geometry keeps the flood_prone flag of the river.
generate_flood_buffer_keepflag(river, buffer_km) ==
    IF RatLe(buffer_km, RatOfInt(0)) \/ Len(river.coordinates) = 0
    THEN [type |-> "Polygon",
          coordinates |-> <<>>,
          properties |-> [river_name |-> river.name,
                          buffer_km |-> RatOfInt(0),
                          flood_prone |-> river.flood_prone]]
    ELSE LET buffer_deg == RatMul(RatMul(RatDiv(buffer_km, RatOfInt(km_per_degree)),
                                         RatOfInt(default_elevation_factor)),
                                  RatOfInt(10))
             walls == LeftWall(river.coordinates, buffer_deg, 1)
                      \o RightWall(river.coordinates, buffer_deg, Len(river.coordinates))
             polygon_coords == IF Len(walls) > 0 THEN Append(walls, walls[1]) ELSE walls
         IN  [type |-> "Polygon",
              coordinates |-> IF Len(polygon_coords) > 0 THEN <<polygon_coords>> ELSE <<>>,
              properties |-> [river_name |-> river.name,
                              buffer_km |-> buffer_km,
                              flood_prone |-> river.flood_prone,
                              river_width_m |-> river.avg_width_m]]

\* The FloodGeometry of a river.  buffer_km is a fraction, in km; ring
\* coordinates are fractions, in tenths of a degree.
generate_flood_buffer(river, buffer_km) ==
    IF RatLe(buffer_km, RatOfInt(0)) \/ Len(river.coordinates) = 0
    THEN [type |-> "Polygon",
          coordinates |-> <<>>,
          properties |-> [river_name |-> river.name,
                          buffer_km |-> RatOfInt(0),
                          flood_prone |-> FALSE]]
    ELSE LET \* (buffer_km / 111.0) * elevation_factor, then in tenths of a degree
             buffer_deg == RatMul(RatMul(RatDiv(buffer_km, RatOfInt(km_per_degree)),
                                         RatOfInt(default_elevation_factor)),
                                  RatOfInt(10))
             walls == LeftWall(river.coordinates, buffer_deg, 1)
                      \o RightWall(river.coordinates, buffer_deg, Len(river.coordinates))
             polygon_coords == IF Len(walls) > 0 THEN Append(walls, walls[1]) ELSE walls
         IN  [type |-> "Polygon",
              coordinates |-> IF Len(polygon_coords) > 0 THEN <<polygon_coords>> ELSE <<>>,
              properties |-> [river_name |-> river.name,
                              buffer_km |-> buffer_km,
                              flood_prone |-> river.flood_prone,
                              river_width_m |-> river.avg_width_m]]

default_terrain_slope_tenths == 20

\* Lines 433-444: the feature made of a FloodGeometry.
Feature(flood_geom, reg, scenario) ==
    [type |-> "Feature",
     geometry |-> [type |-> flood_geom.type, coordinates |-> flood_geom.coordinates],
     properties |-> [scenario |-> scenario, region |-> reg] @@ flood_geom.properties]

RECURSIVE Features_defaultwidth(_, _, _, _)
\* Mutant: the buffer is computed without the river's width (default 500).
Features_defaultwidth(rivers, reg, scenario, i) ==
    IF i > Len(rivers) THEN <<>>
    ELSE LET river == rivers[i]
             buffer_km == calculate_buffer_distance(scenario, 500,
                                                    default_terrain_slope_tenths).km
             flood_geom == generate_flood_buffer(river, buffer_km)
         IN  (IF Len(flood_geom.coordinates) > 0
              THEN <<Feature(flood_geom, reg, scenario)>> ELSE <<>>)
             \o Features_defaultwidth(rivers, reg, scenario, i + 1)

RECURSIVE Features_nofilter(_, _, _, _)
\* Mutant: a feature is appended for every river, whatever its geometry.
Features_nofilter(rivers, reg, scenario, i) ==
    IF i > Len(rivers) THEN <<>>
    ELSE LET river == rivers[i]
             buffer_km == calculate_buffer_distance(scenario, river.avg_width_m,
                                                    default_terrain_slope_tenths).km
             flood_geom == generate_flood_buffer(river, buffer_km)
         IN  <<Feature(flood_geom, reg, scenario)>>
             \o Features_nofilter(rivers, reg, scenario, i + 1)

RECURSIVE Features(_, _, _, _)
\* Lines 421-445: the loop over the rivers, from index i.
Features(rivers, reg, scenario, i) ==
    IF i > Len(rivers) THEN <<>>
    ELSE LET river == rivers[i]
             buffer_km == calculate_buffer_distance(scenario, river.avg_width_m,
                                                    default_terrain_slope_tenths).km
             flood_geom == generate_flood_buffer(river, buffer_km)
         IN  (IF Len(flood_geom.coordinates) > 0
              THEN <<Feature(flood_geom, reg, scenario)>> ELSE <<>>)
             \o Features(rivers, reg, scenario, i + 1)

\* The outcome of a raised KeyError.
KeyError == [raised |-> TRUE, value |-> [type |-> "KeyError"]]

\* Mutant: the scenario is looked up before the rivers of the region.
get_flood_geometry_wrapped_lookupfirst(reg, scenario) ==
    LET rivers == get_river_network(reg)
    IN  IF scenario \notin Scenarios THEN KeyError
        ELSE [raised |-> FALSE,
              value |-> [type |-> "FeatureCollection",
                         features |-> Features(rivers, reg, scenario, 1)]]

\* The body of get_flood_geometry (what lru_cache wraps): the outcome of one
\* execution, a FeatureCollection or the KeyError of the scenario lookup.
get_flood_geometry_wrapped(reg, scenario) ==
    LET rivers == get_river_network(reg)
    IN  IF Len(rivers) = 0
        THEN [raised |-> FALSE,
              value |-> [type |-> "FeatureCollection", features |-> <<>>]]
        ELSE IF calculate_buffer_distance(scenario, rivers[1].avg_width_m,
                                          default_terrain_slope_tenths).raised
        THEN KeyError
        ELSE [raised |-> FALSE,
              value |-> [type |-> "FeatureCollection",
                         features |-> Features(rivers, reg, scenario, 1)]]

-----------------------------------------------------------------------------
(* lru_cache(maxsize=32) around get_flood_geometry.  The cache is the       *)
(* sequence of its entries [key, result], least recently used first; a key  *)
(* is the pair <<region, scenario>> of the positional arguments.            *)

maxsize == 32

CacheKeys(c) == {c[i].key : i \in 1..Len(c)}

\* The position of the entry of a key (0: a miss).
CacheFind(c, key) ==
    IF \E i \in 1..Len(c) : c[i].key = key
    THEN CHOOSE i \in 1..Len(c) : c[i].key = key
    ELSE 0

\* A hit moves the entry to the most recently used end.
CacheTouch(c, i) ==
    SubSeq(c, 1, i - 1) \o SubSeq(c, i + 1, Len(c)) \o <<c[i]>>

\* Mutant: on eviction the oldest entry is reused with its old result.
CacheStore_reuse(c, key, result) ==
    IF CacheFind(c, key) # 0 THEN c
    ELSE IF Len(c) < maxsize THEN Append(c, [key |-> key, result |-> result])
    ELSE Append(Tail(c), [key |-> key, result |-> c[1].result])

\* Mutant: the result is stored without looking for the key again.
CacheStore_nocheck(c, key, result) ==
    IF Len(c) < maxsize THEN Append(c, [key |-> key, result |-> result])
    ELSE Append(Tail(c), [key |-> key, result |-> result])

\* Mutant: a new entry is added without dropping the oldest one.
CacheStore_noevict(c, key, result) ==
    IF CacheFind(c, key) # 0 THEN c
    ELSE Append(c, [key |-> key, result |-> result])

\* After the wrapped function returned: nothing if the key was stored in the
\* meantime, else the entry is added, in place of the oldest when full.
CacheStore(c, key, result) ==
    IF CacheFind(c, key) # 0 THEN c
    ELSE IF Len(c) < maxsize THEN Append(c, [key |-> key, result |-> result])
    ELSE Append(Tail(c), [key |-> key, result |-> result])

-----------------------------------------------------------------------------
(* The inputs of the specification Spec *)

MaxRingLen == 4

MaxRings == 3

\* An unregistered region key.
UnknownRegion == "Assam"

RegionInputs == Regions \cup {UnknownRegion}

\* Ring vertices around the end of the Ganges centerline of Uttar Pradesh
\* (840, 254) and the start of the Ganges centerline of Bihar (842, 256).
GridPoints ==
    {<<839, 254>>, <<839, 255>>, <<840, 254>>, <<842, 256>>, <<842, 257>>,
     <<843, 255>>, <<843, 256>>}

GridRings == SeqsUpTo(GridPoints, MaxRingLen)

\* A closed square around the Ganges vertex (845, 255) of Bihar.
RingGanges == <<<<844, 254>>, <<846, 254>>, <<846, 256>>, <<844, 256>>, <<844, 254>>>>

\* An open square around (863, 250), the common point of Ganges and Kosi.
RingJunction == <<<<862, 249>>, <<864, 249>>, <<864, 251>>, <<862, 251>>>>

\* An open square around the Kosi vertex (866, 259).
RingKosi == <<<<865, 258>>, <<867, 258>>, <<867, 260>>, <<865, 260>>>>

\* A triangle whose edges cross the Ganges of Bihar with no river point inside.
RingCross == <<<<847, 254>>, <<848, 256>>, <<848, 254>>>>

\* A triangle far from every river.
RingFar == <<<<100, 100>>, <<101, 100>>, <<101, 101>>>>

\* Rings with fewer than three points.
RingTwo == <<<<843, 255>>, <<843, 256>>>>

CuratedRings == {RingGanges, RingJunction, RingKosi, RingFar, RingTwo, <<>>}

\* The regions whose rivers pass the grid.
GridRegions == {"Bihar", "Uttar Pradesh"}

\* Rivers registered with a centerline of fewer than two points, the one
\* point of Spot inside RingGanges, and a river of two points that starts
\* inside RingGanges.
SparseRivers ==
    << RiverSegment("Dry", <<>>, 500),
       RiverSegment("Spot", <<<<845, 255>>>>, 300),
       RiverSegment("Reach", <<<<845, 255>>, <<848, 255>>>>, 200) >>

SparseRegion == "Sparse"

\* RIVER_NETWORKS with the region "Sparse" added.
SparseNetworks ==
    [r \in Regions \cup {SparseRegion} |->
        IF r \in Regions THEN RiverNetworksAtImport[r] ELSE SparseRivers]

-----------------------------------------------------------------------------
(* The callers of get_flood_geometry *)

NumUnknown == 33

NumCallers == 2

Callers == 1..NumCallers

\* One more client, which makes its calls one after the other.
Sequential == NumCallers + 1

Clients == Callers \cup {Sequential}

RECURSIVE UnknownRegionName(_)
\* The i-th unregistered region key: "Region" followed by i letters X.
UnknownRegionName(i) == IF i = 0 THEN "Region" ELSE UnknownRegionName(i - 1) \o "X"

UnknownKey(i) == <<UnknownRegionName(i), "1m">>

\* The keys asked for by the sequential client besides the unregistered
\* regions; <<"Jharkhand", "5m">> has a scenario outside the table.
SequentialKeys == {<<"Jharkhand", "1m">>, <<"Jharkhand", "5m">>}

\* The key the concurrent callers ask for.
ContestedKeys == {<<"Jharkhand", "1m">>}

NoKey == <<"", "">>

NoOutcome == [raised |-> FALSE, value |-> [type |-> "None"]]

IdleCaller == [pc |-> "idle", key |-> NoKey, kind |-> "none", outcome |-> NoOutcome]

\* The state of the variables a specification does not use.
IntersectionIdle ==
    /\ pc = "none"
    /\ region = UnknownRegion
    /\ polygon_rings = <<>>
    /\ results = <<>>

CacheAtImport ==
    /\ cache = <<>>
    /\ next_unknown = 1
    /\ evictions = {}
    /\ callers = [t \in Clients |-> IdleCaller]

-----------------------------------------------------------------------------
(* The inputs of the specification SpecBuffer: one call of one function *)

NoRiver == RiverSegment("", <<>>, 0)

\* The arguments of a call; a function reads the fields of its parameters.
NoArg ==
    [region |-> UnknownRegion, rings |-> <<>>, scenario |-> "",
     river_width_m |-> 0, terrain_slope_tenths |-> 0,
     river |-> NoRiver, buffer_km |-> RatOfInt(0),
     point |-> <<0, 0>>, polygon |-> <<>>,
     aoi |-> <<>>, shapely_available |-> FALSE,
     segments |-> <<<<0, 0>>, <<0, 0>>, <<0, 0>>, <<0, 0>>>>]

\* The state of the single-call variables in a specification without them.
CallIdle ==
    /\ op = "none"
    /\ arg = NoArg
    /\ ret = NoOutcome

\* A scenario value outside the table.
BadScenario == "5m"

ScenarioInputs == Scenarios \cup {BadScenario}

\* River widths in metres, the default 500 and the extreme widths of the
\* registry (250, 900) among them.
WidthInputs == {0, 1, 250, 500, 900, 1500}

MaxSlopeTenths == 21

\* Terrain slopes in tenths of a degree: negative, zero, 0.1, and up to
\* past the default 2.0.
SlopeInputs == (-2)..MaxSlopeTenths

MaxCenterline == 3

\* A river whose centerline is the first n points of the Ganges of Bihar.
CenterlineRiver(n, flood_prone) ==
    [RiverSegment("Reach", SubSeq(BiharRivers[1].coordinates, 1, n), 800)
        EXCEPT !.flood_prone = flood_prone]

RiverInputs == {CenterlineRiver(n, f) : n \in 0..MaxCenterline, f \in BOOLEAN}

\* Buffer distances in km: negative, zero, 0.36, 3 and 8.1.
BufferInputs == {Rat(-1, 2), RatOfInt(0), Rat(9, 25), RatOfInt(3), Rat(81, 10)}

\* The rivers of a region added to the registry by the caller of the module:
\* one without centerline, one of width zero, one ordinary.
TestRivers ==
    << RiverSegment("Dry", <<>>, 500),
       RiverSegment("Narrow", <<<<842, 256>>, <<845, 255>>>>, 0),
       RiverSegment("Wide", <<<<850, 256>>, <<852, 253>>>>, 1000) >>

TestRegions == {"Test", "Empty"}

\* RIVER_NETWORKS with the region "Test" and a region without rivers added.
TestNetworks ==
    [r \in Regions \cup TestRegions |->
        IF r \in Regions THEN RiverNetworksAtImport[r]
        ELSE IF r = "Test" THEN TestRivers ELSE <<>>]

Registries == {RiverNetworksAtImport, TestNetworks}

BufferCalls ==
    {[op |-> "calculate_buffer_distance", registry |-> RiverNetworksAtImport,
      arg |-> [NoArg EXCEPT !.scenario = s, !.river_width_m = w,
                            !.terrain_slope_tenths = t]] :
        s \in ScenarioInputs, w \in WidthInputs, t \in SlopeInputs}
    \cup
    {[op |-> "generate_flood_buffer", registry |-> RiverNetworksAtImport,
      arg |-> [NoArg EXCEPT !.river = r, !.buffer_km = b]] :
        r \in RiverInputs, b \in BufferInputs}
    \cup
    {[op |-> "get_flood_geometry", registry |-> n,
      arg |-> [NoArg EXCEPT !.region = r, !.scenario = s]] :
        n \in Registries, r \in RegionInputs \cup TestRegions, s \in ScenarioInputs}
    \cup
    {[op |-> "get_river_network", registry |-> n,
      arg |-> [NoArg EXCEPT !.region = r]] :
        n \in Registries, r \in RegionInputs \cup TestRegions}
    \cup
    {[op |-> "check_river_intersection", registry |-> RiverNetworksAtImport,
      arg |-> [NoArg EXCEPT !.region = r, !.rings = <<ring>>]] :
        r \in RegionInputs, ring \in CuratedRings}

-----------------------------------------------------------------------------
(* Spec: calls of check_river_intersection, on one ring (of the grid, or    *)
(* the crossing triangle) against a region of the grid, or on a list of     *)
(* curated rings against any region key                                    *)

Init ==
    /\ pc = "call"
    /\ \/ \E reg \in GridRegions, r \in GridRings \cup {RingCross} :
             /\ RIVER_NETWORKS = RiverNetworksAtImport
             /\ region = reg
             /\ polygon_rings = <<r>>
       \/ \E reg \in RegionInputs, rings \in SeqsUpTo(CuratedRings, MaxRings) :
             /\ RIVER_NETWORKS = RiverNetworksAtImport
             /\ region = reg
             /\ polygon_rings = rings
       \/ \E rings \in SeqsUpTo(CuratedRings, MaxRings) :
             /\ RIVER_NETWORKS = SparseNetworks
             /\ region = SparseRegion
             /\ polygon_rings = rings
    /\ results = <<>>
    /\ CacheAtImport
    /\ op = "check_river_intersection"
    /\ arg = NoArg
    /\ ret = NoOutcome

\* One call of check_river_intersection(region, polygon_rings).
CheckRiverIntersection ==
    /\ pc = "call"
    /\ results' = check_river_intersection(region, polygon_rings)
    /\ pc' = "returned"
    /\ UNCHANGED <<op, arg, ret, RIVER_NETWORKS, region, polygon_rings,
                   cache, next_unknown, evictions, callers>>

Next == CheckRiverIntersection

Spec == Init /\ [][Next]_vars

-----------------------------------------------------------------------------
(* A call of get_flood_geometry through lru_cache, in the three steps of    *)
(* the wrapper: the lookup, the wrapped function, which runs without the    *)
(* cache being held, and the store.  The lookup and the store are each      *)
(* atomic; the steps of other clients fall between them.                    *)

\* The variables the steps of a cached call leave alone.
CallFrame == <<op, arg, ret, RIVER_NETWORKS, pc, region, polygon_rings, results>>

\* Client t has no call in progress.
Ready(t) == callers[t].pc \in {"idle", "returned"}

\* Client t enters get_flood_geometry(key[1], key[2]): a hit refreshes the
\* entry and returns the stored result, a miss goes on to the function.
Lookup(t, key) ==
    LET i == CacheFind(cache, key)
    IN  /\ IF i # 0
           THEN /\ cache' = CacheTouch(cache, i)
                /\ callers' = [callers EXCEPT ![t] =
                       [pc |-> "returned", key |-> key, kind |-> "hit",
                        outcome |-> [raised |-> FALSE, value |-> cache[i].result]]]
           ELSE /\ cache' = cache
                /\ callers' = [callers EXCEPT ![t] =
                       [pc |-> "computing", key |-> key, kind |-> "miss",
                        outcome |-> NoOutcome]]
        /\ UNCHANGED evictions

\* Client t runs the wrapped function; when it raises, the call ends with
\* nothing stored.
Run(t) ==
    /\ callers[t].pc = "computing"
    /\ LET out == get_flood_geometry_wrapped(callers[t].key[1], callers[t].key[2])
       IN  callers' = [callers EXCEPT ![t].outcome = out,
                                      ![t].pc = IF out.raised THEN "returned" ELSE "storing"]
    /\ UNCHANGED <<cache, evictions>>

\* Client t stores its result and returns it.
Insert(t) ==
    /\ callers[t].pc = "storing"
    /\ cache' = CacheStore(cache, callers[t].key, callers[t].outcome.value)
    /\ evictions' = evictions \cup (CacheKeys(cache) \ CacheKeys(cache'))
    /\ callers' = [callers EXCEPT ![t].pc = "returned"]

\* Caller t enters get_flood_geometry(key): the lookup.
Enter(t) ==
    /\ callers[t].pc = "idle"
    /\ \E key \in ContestedKeys : Lookup(t, key)
    /\ UNCHANGED <<CallFrame, next_unknown>>

\* Client t runs the wrapped function.
Compute(t) ==
    /\ Run(t)
    /\ UNCHANGED <<CallFrame, next_unknown>>

\* Client t stores its result and returns it.
Store(t) ==
    /\ Insert(t)
    /\ UNCHANGED <<CallFrame, next_unknown>>

-----------------------------------------------------------------------------
(* SpecCache: a program of one thread calls get_flood_geometry, one call    *)
(* after the other, for a registered key, a key with an illegal scenario    *)
(* and a cycle of unregistered regions longer than the cache.  The calls    *)
(* are direct calls of the function, with any strings as arguments.         *)

InitCache ==
    /\ RIVER_NETWORKS = RiverNetworksAtImport
    /\ IntersectionIdle
    /\ CacheAtImport
    /\ CallIdle

\* The sequential client begins a call for one of its keys.
CallKey ==
    /\ Ready(Sequential)
    /\ \E key \in SequentialKeys : Lookup(Sequential, key)
    /\ UNCHANGED <<CallFrame, next_unknown>>

\* The unregistered regions are asked for one after the other, in a cycle.
CallNextUnknown ==
    /\ Ready(Sequential)
    /\ Lookup(Sequential, UnknownKey(next_unknown))
    /\ next_unknown' = (next_unknown % NumUnknown) + 1
    /\ UNCHANGED CallFrame

\* The unregistered region asked for last is asked for again.
CallLastUnknown ==
    LET last == ((next_unknown + NumUnknown - 2) % NumUnknown) + 1
    IN  /\ Ready(Sequential)
        /\ UnknownKey(last) \in CacheKeys(cache) \cup evictions
        /\ Lookup(Sequential, UnknownKey(last))
        /\ UNCHANGED <<CallFrame, next_unknown>>

NextCache ==
    \/ CallKey
    \/ CallNextUnknown
    \/ CallLastUnknown
    \/ Compute(Sequential)
    \/ Store(Sequential)

SpecCache == InitCache /\ [][NextCache]_vars

-----------------------------------------------------------------------------
(* SpecConc: concurrent callers of get_flood_geometry on the same key,      *)
(* each making one call, while the sequential client asks for each of the   *)
(* unregistered regions once.                                               *)

InitConc ==
    /\ RIVER_NETWORKS = RiverNetworksAtImport
    /\ IntersectionIdle
    /\ CacheAtImport
    /\ CallIdle

\* The sequential client begins a call for the next unregistered region,
\* until each of them has been asked for once.
OtherCall ==
    /\ next_unknown <= NumUnknown
    /\ Ready(Sequential)
    /\ Lookup(Sequential, UnknownKey(next_unknown))
    /\ next_unknown' = next_unknown + 1
    /\ UNCHANGED CallFrame

NextConc ==
    \/ \E t \in Callers : Enter(t)
    \/ OtherCall
    \/ \E t \in Clients : Compute(t)
    \/ \E t \in Clients : Store(t)

SpecConc == InitConc /\ [][NextConc]_vars

-----------------------------------------------------------------------------
(* SpecBuffer: one call of one of the functions of the module, with the     *)
(* cache of get_flood_geometry empty                                        *)

InitBuffer ==
    /\ \E input \in BufferCalls :
          /\ op = input.op
          /\ arg = input.arg
          /\ RIVER_NETWORKS = input.registry
    /\ pc = "call"
    /\ region = arg.region
    /\ polygon_rings = arg.rings
    /\ results = <<>>
    /\ ret = NoOutcome
    /\ CacheAtImport

\* Mutant: the lookup is RIVER_NETWORKS.setdefault(region, []).
GetRiverNetwork_setdefault ==
    /\ pc = "call"
    /\ op = "get_river_network"
    /\ ret' = get_river_network(arg.region)
    /\ RIVER_NETWORKS' =
          [r \in DOMAIN RIVER_NETWORKS \cup {arg.region} |-> get_river_network(r)]
    /\ pc' = "returned"
    /\ UNCHANGED <<op, arg, region, polygon_rings, results,
                   cache, next_unknown, evictions, callers>>

\* get_river_network(region)
GetRiverNetwork ==
    /\ pc = "call"
    /\ op = "get_river_network"
    /\ ret' = get_river_network(arg.region)
    /\ pc' = "returned"
    /\ UNCHANGED <<op, arg, RIVER_NETWORKS, region, polygon_rings, results,
                   cache, next_unknown, evictions, callers>>

\* calculate_buffer_distance(scenario, river_width_m, terrain_slope)
CalculateBufferDistance ==
    /\ pc = "call"
    /\ op = "calculate_buffer_distance"
    /\ ret' = calculate_buffer_distance(arg.scenario, arg.river_width_m,
                                        arg.terrain_slope_tenths)
    /\ pc' = "returned"
    /\ UNCHANGED <<op, arg, RIVER_NETWORKS, region, polygon_rings, results,
                   cache, next_unknown, evictions, callers>>

\* generate_flood_buffer(river, buffer_km)
GenerateFloodBuffer ==
    /\ pc = "call"
    /\ op = "generate_flood_buffer"
    /\ ret' = generate_flood_buffer(arg.river, arg.buffer_km)
    /\ pc' = "returned"
    /\ UNCHANGED <<op, arg, RIVER_NETWORKS, region, polygon_rings, results,
                   cache, next_unknown, evictions, callers>>

\* The call of the single caller has returned once its step leaves the
\* client returned: the caller then holds the outcome.
Returns(t) ==
    IF callers'[t].pc = "returned"
    THEN ret' = callers'[t].outcome /\ pc' = "returned"
    ELSE UNCHANGED <<ret, pc>>

\* get_flood_geometry(region, scenario), through its cache: the lookup.
CallGetFloodGeometry ==
    /\ pc = "call"
    /\ op = "get_flood_geometry"
    /\ callers[Sequential].pc = "idle"
    /\ Lookup(Sequential, <<arg.region, arg.scenario>>)
    /\ Returns(Sequential)
    /\ UNCHANGED <<op, arg, RIVER_NETWORKS, region, polygon_rings, results,
                   next_unknown>>

\* The wrapped function of the call runs.
RunGetFloodGeometry ==
    /\ pc = "call"
    /\ op = "get_flood_geometry"
    /\ Run(Sequential)
    /\ Returns(Sequential)
    /\ UNCHANGED <<op, arg, RIVER_NETWORKS, region, polygon_rings, results,
                   next_unknown>>

\* The result of the call is stored and returned.
StoreGetFloodGeometry ==
    /\ pc = "call"
    /\ op = "get_flood_geometry"
    /\ Insert(Sequential)
    /\ Returns(Sequential)
    /\ UNCHANGED <<op, arg, RIVER_NETWORKS, region, polygon_rings, results,
                   next_unknown>>

\* check_river_intersection(region, polygon_rings)
CallCheckRiverIntersection ==
    /\ op = "check_river_intersection"
    /\ CheckRiverIntersection

NextBuffer ==
    \/ GetRiverNetwork
    \/ CalculateBufferDistance
    \/ GenerateFloodBuffer
    \/ CallGetFloodGeometry
    \/ RunGetFloodGeometry
    \/ StoreGetFloodGeometry
    \/ CallCheckRiverIntersection

SpecBuffer == InitBuffer /\ [][NextBuffer]_vars

-----------------------------------------------------------------------------
(* SpecPlanar: one call of is_point_in_polygon or of segments_intersect *)

MaxPolygonLen == 3

\* The grid of the polygon vertices and of the segment end points.
PlanarCoords == {0, 1, 2}

PlanarPoints == PlanarCoords \X PlanarCoords

\* The grid of the corners of the rectangles and of the points tested
\* against them.
RectangleCoords == {0, 1, 2, 3}

\* The corners of an axis-aligned rectangle, counter-clockwise from the
\* lower left one.
Corners(x1, y1, x2, y2) == <<<<x1, y1>>, <<x2, y1>>, <<x2, y2>>, <<x1, y2>>>>

\* The ring of four points started at its k-th point.
Rotate(ring, k) == [i \in 1..4 |-> ring[((i + k - 2) % 4) + 1]]

Reverse(ring) == [i \in 1..Len(ring) |-> ring[Len(ring) + 1 - i]]

\* The rings of the axis-aligned rectangles: from any corner, in either
\* winding order, closed or not.
RectangleRings ==
    LET open == {Rotate(Corners(x1, y1, x2, y2), k) :
                    x1 \in RectangleCoords, y1 \in RectangleCoords,
                    x2 \in RectangleCoords, y2 \in RectangleCoords,
                    k \in 1..4}
        proper == {r \in open : r[1][1] # r[3][1] /\ r[1][2] # r[3][2]}
        wound == proper \cup {Reverse(r) : r \in proper}
    IN  wound \cup {Append(r, r[1]) : r \in wound}

InitPlanar ==
    /\ RIVER_NETWORKS = RiverNetworksAtImport
    /\ \/ /\ op = "is_point_in_polygon"
          /\ \E pt \in PlanarPoints, poly \in SeqsUpTo(PlanarPoints, MaxPolygonLen) :
                arg = [NoArg EXCEPT !.point = pt, !.polygon = poly]
       \/ /\ op = "is_point_in_polygon"
          /\ \E pt \in RectangleCoords \X RectangleCoords, poly \in RectangleRings :
                arg = [NoArg EXCEPT !.point = pt, !.polygon = poly]
       \/ /\ op = "segments_intersect"
          /\ \E a1 \in PlanarPoints, a2 \in PlanarPoints,
                b1 \in PlanarPoints, b2 \in PlanarPoints :
                arg = [NoArg EXCEPT !.segments = <<a1, a2, b1, b2>>]
    /\ pc = "call"
    /\ region = arg.region
    /\ polygon_rings = arg.rings
    /\ results = <<>>
    /\ ret = NoOutcome
    /\ CacheAtImport

\* is_point_in_polygon(x, y, polygon)
IsPointInPolygon ==
    /\ pc = "call"
    /\ op = "is_point_in_polygon"
    /\ ret' = is_point_in_polygon_call(arg.point[1], arg.point[2], arg.polygon)
    /\ pc' = "returned"
    /\ UNCHANGED <<op, arg, RIVER_NETWORKS, region, polygon_rings, results,
                   cache, next_unknown, evictions, callers>>

\* segments_intersect(p1, p2, p3, p4)
SegmentsIntersect ==
    /\ pc = "call"
    /\ op = "segments_intersect"
    /\ ret' = segments_intersect(arg.segments[1], arg.segments[2],
                                 arg.segments[3], arg.segments[4])
    /\ pc' = "returned"
    /\ UNCHANGED <<op, arg, RIVER_NETWORKS, region, polygon_rings, results,
                   cache, next_unknown, evictions, callers>>

NextPlanar == IsPointInPolygon \/ SegmentsIntersect

SpecPlanar == InitPlanar /\ [][NextPlanar]_vars

-----------------------------------------------------------------------------
(* apply_aoi_scale of src/backend/main.py.  A response is modelled by its   *)
(* riskScore (an exact fraction) and its embankmentStatus; area and         *)
(* population, which in the intersecting branch are a cosine-scaled         *)
(* bounding-box estimate, are left out.                                     *)

RatMin(a, b) == IF RatLe(a, b) THEN a ELSE b

RatMax(a, b) == IF RatLe(b, a) THEN a ELSE b

\* round(score, 2) of a non-negative score: the nearest hundredth, a tie
\* going to the even hundredth.
Round2(r) ==
    LET scaled == r.num * 100
        q == scaled \div r.den
        twice == 2 * (scaled % r.den)
    IN  IF twice < r.den THEN Rat(q, 100)
        ELSE IF twice > r.den THEN Rat(q + 1, 100)
        ELSE IF q % 2 = 0 THEN Rat(q, 100)
        ELSE Rat(q + 1, 100)

RiskSummaryResponse(riskScore, embankmentStatus) ==
    [riskScore |-> riskScore, embankmentStatus |-> embankmentStatus]

\* The base response every caller of apply_aoi_scale passes.
DummyBase == RiskSummaryResponse(RatOfInt(0), "")

\* all_rings: the rings of the polygons of aoi from position i on, in order.
RECURSIVE AllRings(_, _)
AllRings(aoi, i) ==
    IF i > Len(aoi) THEN <<>> ELSE aoi[i].rings \o AllRings(aoi, i + 1)

\* sum(r.intersection_length_km for r in intersects), from position i on.
RECURSIVE TotalRiverKm(_, _)
TotalRiverKm(intersects, i) ==
    IF i > Len(intersects) THEN 0
    ELSE intersects[i].intersection_length_km + TotalRiverKm(intersects, i + 1)

\* debug_msg of the branch without intersections.
DebugMsg(reg, shapely_available) ==
    IF ~shapely_available THEN "Shapely Missing"
    ELSE "No Intersect (Checked " \o ToString(Len(get_river_network(reg)))
             \o " rivers)"

scenario_mult(scenario) ==
    IF scenario = "1m" THEN RatOfInt(1) ELSE Rat(3, 2)

\* score after the clamp, for a total length in km and a scenario.
ClampedScore(total_river_km, scenario) ==
    LET risk_factor == RatMin(RatOfInt(1), Rat(total_river_km, 10))
        score == RatMul(RatAdd(RatOfInt(5), RatMul(risk_factor, RatOfInt(4))),
                        scenario_mult(scenario))
    IN  RatMin(Rat(99, 10), RatMax(RatOfInt(1), score))

\* The response of the branch with intersections (main.py lines 314-348).
ScaledResponse(intersects, scenario) ==
    LET score == ClampedScore(TotalRiverKm(intersects, 1), scenario)
        primary_river == intersects[1].river_name
    IN  RiskSummaryResponse(Round2(score),
            IF RatLt(RatOfInt(7), score)
            THEN "Critical (" \o primary_river \o ")"
            ELSE "Warning (" \o primary_river \o ")")

\* intersects is bound to the value of the one call of
\* check_river_intersection.
apply_aoi_scale(reg, scenario, base, aoi, shapely_available) ==
    IF Len(aoi) = 0 THEN base
    ELSE Only({IF Len(intersects) = 0
               THEN IF scenario = "0m"
                    THEN RiskSummaryResponse(RatOfInt(0), "Normal")
                    ELSE RiskSummaryResponse(RatOfInt(0),
                             "Safe - " \o DebugMsg(reg, shapely_available))
               ELSE ScaledResponse(intersects, scenario) :
               intersects \in {check_river_intersection(reg, AllRings(aoi, 1))}})

-----------------------------------------------------------------------------
(* SpecRisk: one call of apply_aoi_scale.  An AOI is a list of at most      *)
(* MaxPolygons polygons, each holding at most MaxAoiRings rings.            *)

MaxPolygons == 2

MaxAoiRings == 1

AoiRings == {RingGanges, RingJunction, RingFar}

PolygonAOI == [rings : SeqsUpTo(AoiRings, MaxAoiRings)]

InitRisk ==
    /\ RIVER_NETWORKS = RiverNetworksAtImport
    /\ op = "apply_aoi_scale"
    /\ \E reg \in RegionInputs, scenario \in Scenarios,
          aoi \in SeqsUpTo(PolygonAOI, MaxPolygons), shapely \in BOOLEAN :
          arg = [NoArg EXCEPT !.region = reg, !.scenario = scenario,
                              !.aoi = aoi, !.shapely_available = shapely]
    /\ pc = "call"
    /\ region = arg.region
    /\ polygon_rings = arg.rings
    /\ results = <<>>
    /\ ret = NoOutcome
    /\ CacheAtImport

\* apply_aoi_scale(region, scenario, base, aoi)
ApplyAoiScale ==
    /\ pc = "call"
    /\ op = "apply_aoi_scale"
    /\ ret' = apply_aoi_scale(arg.region, arg.scenario, DummyBase, arg.aoi,
                              arg.shapely_available)
    /\ pc' = "returned"
    /\ UNCHANGED <<op, arg, RIVER_NETWORKS, region, polygon_rings, results,
                   cache, next_unknown, evictions, callers>>

NextRisk == ApplyAoiScale

SpecRisk == InitRisk /\ [][NextRisk]_vars

-----------------------------------------------------------------------------
(* Properties of check_river_intersection, checked under Spec *)

Returned == pc = "returned"

Rivers == get_river_network(region)

ResultNames == {results[i].river_name : i \in 1..Len(results)}

\* Twice the signed area of the triangle a, b, c.
Orient(a, b, c) == (b[1] - a[1]) * (c[2] - a[2]) - (b[2] - a[2]) * (c[1] - a[1])

\* The segments a1-a2 and b1-b2 cross at a point interior to both.
ProperCross(a1, a2, b1, b2) ==
    /\ Orient(a1, a2, b1) * Orient(a1, a2, b2) < 0
    /\ Orient(b1, b2, a1) * Orient(b1, b2, a2) < 0

\* Some river edge properly crosses some edge of the ring, the closing edge
\* from the last point back to the first included.
CrossesClosedRing(coords, ring) ==
    \E i \in 1..(Len(coords) - 1) : \E j \in 1..Len(ring) :
        ProperCross(coords[i], coords[i + 1], ring[j], ring[(j % Len(ring)) + 1])

\* The ring with its first point repeated at the end, when it has at least
\* three points and is not closed already.
CloseRing(ring) ==
    IF Len(ring) >= MinRingPoints /\ ring[1] # ring[Len(ring)]
    THEN Append(ring, ring[1]) ELSE ring

CloseRings(rings) == [k \in 1..Len(rings) |-> CloseRing(rings[k])]

\* C1: for every ring with at least 3 points whose bounding box overlaps a
\* river's, a proper crossing of a river edge with any ring edge, the closing
\* edge included, makes the river reported; and the result is the same
\* whether or not the rings are explicitly closed.
C1_ClosingEdgeCrossingReported ==
    Returned =>
        /\ \A r \in 1..Len(Rivers) : \A k \in 1..Len(polygon_rings) :
              LET river == Rivers[r]
                  ring == polygon_rings[k]
              IN  ( /\ Len(ring) >= MinRingPoints
                    /\ Len(river.coordinates) >= MinRiverPoints
                    /\ ~BBoxDisjoint(ring, river.coordinates)
                    /\ CrossesClosedRing(river.coordinates, ring) )
                  => river.name \in ResultNames
        /\ results = check_river_intersection(region, CloseRings(polygon_rings))

\* Some river edge meets some edge of the ring by segments_intersect, over
\* the edges between consecutive points and the closing edge.
SegmentsMeet(coords, ring) ==
    \E i \in 1..(Len(coords) - 1) : \E j \in 1..Len(ring) :
        segments_intersect(coords[i], coords[i + 1], ring[j], ring[(j % Len(ring)) + 1])

\* C2: a river is reported only if, for some ring with at least 3 points, a
\* vertex of the river is inside the ring or a river edge crosses a ring
\* edge; overlap of the bounding boxes alone reports nothing.
C2_ReportedOnlyIfInsideOrCrossing ==
    Returned =>
        \A n \in 1..Len(results) :
            \E r \in 1..Len(Rivers) : \E k \in 1..Len(polygon_rings) :
                /\ Rivers[r].name = results[n].river_name
                /\ Len(polygon_rings[k]) >= MinRingPoints
                /\ \/ AnyVertexInside(Rivers[r].coordinates, polygon_rings[k])
                   \/ SegmentsMeet(Rivers[r].coordinates, polygon_rings[k])

\* A call that reported a river, while another river whose bounding box
\* overlaps a ring's was not reported.
C2_Witness ==
    /\ Returned
    /\ Len(results) > 0
    /\ \E r \in 1..Len(Rivers) : \E k \in 1..Len(polygon_rings) :
          /\ Len(polygon_rings[k]) >= MinRingPoints
          /\ ~BBoxDisjoint(polygon_rings[k], Rivers[r].coordinates)
          /\ Rivers[r].name \notin ResultNames

\* The bounding boxes of the ring and of the river do not overlap, computed
\* from the coordinates (independently of the code's test).
BoxesApart(ring, coords) ==
    \/ \A i \in 1..Len(ring) : \A j \in 1..Len(coords) : ring[i][1] < coords[j][1]
    \/ \A i \in 1..Len(ring) : \A j \in 1..Len(coords) : ring[i][1] > coords[j][1]
    \/ \A i \in 1..Len(ring) : \A j \in 1..Len(coords) : ring[i][2] < coords[j][2]
    \/ \A i \in 1..Len(ring) : \A j \in 1..Len(coords) : ring[i][2] > coords[j][2]

\* C3: if every ring's bounding box is disjoint from every river's, the
\* result is empty; and no ring rejected by the bounding-box test has a river
\* vertex inside it or an edge meeting a river edge (a river without points
\* has no bounding box).
C3_BoundingBoxFastPath ==
    Returned =>
        /\ ( (\A r \in 1..Len(Rivers) : \A k \in 1..Len(polygon_rings) :
                 Len(polygon_rings[k]) > 0
                 => BoxesApart(polygon_rings[k], Rivers[r].coordinates))
             => results = <<>> )
        /\ \A r \in 1..Len(Rivers) : \A k \in 1..Len(polygon_rings) :
              ( /\ Len(polygon_rings[k]) >= MinRingPoints
                /\ Len(Rivers[r].coordinates) > 0
                /\ BBoxDisjoint(polygon_rings[k], Rivers[r].coordinates) )
              => /\ ~AnyVertexInside(Rivers[r].coordinates, polygon_rings[k])
                 /\ ~AnyEdgeCrossing(Rivers[r].coordinates, polygon_rings[k])

\* A call on a region with rivers, whose one ring has three points or more
\* and a bounding box disjoint from every river's, right beside a river end.
C3_Witness ==
    /\ Returned
    /\ region = "Uttar Pradesh"
    /\ polygon_rings = << <<<<842, 256>>, <<843, 255>>, <<843, 256>>>> >>
    /\ \A r \in 1..Len(Rivers) : BBoxDisjoint(polygon_rings[1], Rivers[r].coordinates)
    /\ results = <<>>

\* C4: the result is empty whenever the region has no registered rivers (an
\* absent key included) or the list of rings is empty.
C4_EmptyForNoRiversOrNoRings ==
    (Returned /\ ( \/ region \notin DOMAIN RIVER_NETWORKS
                   \/ Len(Rivers) = 0
                   \/ Len(polygon_rings) = 0 ))
    => results = <<>>

\* A call on an unregistered region with a ring that, in Bihar, contains a
\* point of the Ganges.
C4_Witness ==
    /\ Returned
    /\ region = UnknownRegion
    /\ region \notin DOMAIN RIVER_NETWORKS
    /\ polygon_rings = <<RingGanges>>
    /\ results = <<>>

\* The rings that have at least three points, in their order.
ValidRings(rings) == SelectSeq(rings, LAMBDA ring : Len(ring) >= MinRingPoints)

\* The rivers that have at least two centerline points, in their order.
LongRivers(rivers) ==
    SelectSeq(rivers, LAMBDA river : Len(river.coordinates) >= MinRiverPoints)

\* C5: rings with fewer than 3 points and rivers with fewer than 2
\* centerline points contribute nothing: when the list holds such rings the
\* result is that of the call with them removed, wherever they stand in the
\* list, and when the region holds such rivers the result is that of the
\* scan of its other rivers over the other rings.
C5_ShortRingsIgnored ==
    Returned =>
        /\ ValidRings(polygon_rings) # polygon_rings
           => results = check_river_intersection(region, ValidRings(polygon_rings))
        /\ Len(LongRivers(Rivers)) < Len(Rivers)
           => results = ScanRivers(LongRivers(Rivers), ValidRings(polygon_rings), 1)

\* A call on the region with a river without points and a river of one point
\* that lies inside a ring of the list; the list also holds a two-point ring
\* and an empty ring, and the river of two points alone is reported.
C5_Witness ==
    /\ Returned
    /\ region = SparseRegion
    /\ Len(Rivers) > Len(LongRivers(Rivers))
    /\ polygon_rings = <<RingTwo, RingGanges, <<>>>>
    /\ is_point_in_polygon(845, 255, RingGanges)
    /\ Len(results) = 1
    /\ results[1].river_name = "Reach"

\* C6: each river name appears at most once in the result.
C6_EachRiverAtMostOnce ==
    Returned =>
        \A i, j \in 1..Len(results) :
            results[i].river_name = results[j].river_name => i = j

\* A call in which one river is hit by two rings of the list.
C6_Witness ==
    /\ Returned
    /\ \E r \in 1..Len(Rivers) :
          /\ HitCount(Rivers[r], polygon_rings) >= 2
          /\ Rivers[r].name \in ResultNames

\* The position of a river name in the registration order of the region
\* (0 when the region has no river of that name).
RegistrationIndex(name) ==
    IF \E r \in 1..Len(Rivers) : Rivers[r].name = name
    THEN CHOOSE r \in 1..Len(Rivers) : Rivers[r].name = name
    ELSE 0

\* C7: the returned names are a subsequence of the region's registered
\* names: every name is registered and the names come in registration order.
C7_RegistrationOrder ==
    Returned =>
        /\ \A i \in 1..Len(results) : RegistrationIndex(results[i].river_name) > 0
        /\ \A i, j \in 1..Len(results) :
              i < j => RegistrationIndex(results[i].river_name)
                       < RegistrationIndex(results[j].river_name)

\* A call whose first ring hits only the second river and whose second ring
\* hits only the first river; the first river is still returned first.
C7_Witness ==
    /\ Returned
    /\ region = "Bihar"
    /\ polygon_rings = <<RingKosi, RingGanges>>
    /\ Len(results) = 2
    /\ results[1].river_name = "Ganges"
    /\ results[2].river_name = "Kosi"

\* C8: every returned result has is_intersecting = TRUE and the same fixed
\* length of 10 km, whatever the AOI and the river.
C8_FixedLengthAndFlag ==
    Returned =>
        \A i \in 1..Len(results) :
            /\ results[i].is_intersecting = TRUE
            /\ results[i].intersection_length_km = 10
            /\ results[i].intersection_length_km >= 0

\* A call that returned two rivers with centerlines of different length.
C8_Witness ==
    /\ Returned
    /\ \E r, q \in 1..Len(Rivers) :
          /\ Rivers[r].name \in ResultNames
          /\ Rivers[q].name \in ResultNames
          /\ Len(Rivers[r].coordinates) # Len(Rivers[q].coordinates)

\* The orders in which n rings can be given.
RingOrders(n) ==
    {f \in [1..n -> 1..n] : \A i, j \in 1..n : f[i] = f[j] => i = j}

\* C28: the result does not depend on the order of the AOI rings: with the
\* rings in any other order the same rivers are returned in the same order,
\* although the scan of a river stops at the first ring that hits it.
C28_RingOrderIrrelevant ==
    Returned =>
        \A f \in RingOrders(Len(polygon_rings)) :
            check_river_intersection(region,
                [k \in 1..Len(polygon_rings) |-> polygon_rings[f[k]]]) = results

\* The first ring hits no river and a later ring does.
C28_Witness ==
    /\ Returned
    /\ Len(polygon_rings) >= 2
    /\ Len(polygon_rings[1]) >= MinRingPoints
    /\ \A r \in 1..Len(Rivers) : ~RingHits(Rivers[r], polygon_rings[1])
    /\ Len(results) > 0

-----------------------------------------------------------------------------
(* Properties of the cached get_flood_geometry *)

\* The FeatureCollection computed directly from the registry.
Direct(key) == get_flood_geometry_wrapped(key[1], key[2])

\* C9: every call returns what a direct computation from the registry
\* gives for its key, be it a hit, a miss or a recomputation after eviction.
C9_CallsReturnDirectValue ==
    \A t \in Clients :
        callers[t].pc = "returned" => callers[t].outcome = Direct(callers[t].key)

\* A miss on a registered region's key that had been stored and evicted
\* before: the FeatureCollection, with its features, is computed again.
C9_Witness ==
    /\ \E t \in Clients :
          /\ callers[t].pc = "returned"
          /\ callers[t].kind = "miss"
          /\ callers[t].key \in evictions
          /\ callers[t].key[1] \in DOMAIN RIVER_NETWORKS
          /\ ~callers[t].outcome.raised
          /\ Len(callers[t].outcome.value.features) > 0
    /\ Len(cache) = maxsize

\* The keys held by the cache or by a client that has returned.
KeysInUse ==
    CacheKeys(cache) \cup {callers[t].key : t \in {u \in Clients : callers[u].pc = "returned"}}

\* What holds of every state of the concurrent clients: a client that has
\* returned holds the value computed directly for its key, the cache holds at
\* most one entry for a key, and that entry is the directly computed value.
C10_CacheSound ==
    /\ \A i, j \in 1..Len(cache) : cache[i].key = cache[j].key => i = j
    /\ \A k \in KeysInUse :
          LET direct == Direct(k)
          IN  /\ \A t \in Clients :
                    (callers[t].pc = "returned" /\ callers[t].key = k)
                    => callers[t].outcome = direct
              /\ \A i \in 1..Len(cache) :
                    cache[i].key = k
                    => (~direct.raised /\ cache[i].result = direct.value)

\* What holds of every step: an entry leaves the cache only as the oldest
\* entry of a full cache, replaced by the entry of a key that was absent.
C10_NoEntryLost ==
    \A k \in CacheKeys(cache) \ CacheKeys(cache') :
        /\ Len(cache) = maxsize
        /\ k = cache[1].key
        /\ Len(cache') = maxsize
        /\ cache'[Len(cache')].key \notin CacheKeys(cache)

\* C10: under every interleaving of callers that miss on the same key, each
\* caller receives the correct FeatureCollection, the cache holds at most
\* one entry for a key and that entry is the correct value, and no entry is
\* lost other than by the eviction of the oldest one.
C10_ConcurrentMissesSafe ==
    []C10_CacheSound /\ [][C10_NoEntryLost]_vars

\* Two callers both missed on the same key, both computed and both have
\* returned, with the cache full and holding one entry of the key.
C10_Witness ==
    /\ \E t, u \in Callers :
          /\ t # u
          /\ callers[t].pc = "returned" /\ callers[t].kind = "miss"
          /\ callers[u].pc = "returned" /\ callers[u].kind = "miss"
          /\ callers[t].key = callers[u].key
          /\ Cardinality({i \in 1..Len(cache) : cache[i].key = callers[t].key}) = 1
    /\ Len(cache) = maxsize
    /\ evictions # {}

\* C11: after any sequence of calls the cache holds at most maxsize (32)
\* entries, and no two of them have the same (region, scenario) key.
C11_CacheBounded ==
    /\ Len(cache) <= maxsize
    /\ \A i, j \in 1..Len(cache) : cache[i].key = cache[j].key => i = j

\* A miss on a new key with the cache full: the result has been stored and
\* another key has left the cache.
C11_Witness ==
    /\ callers[Sequential].pc = "returned"
    /\ callers[Sequential].kind = "miss"
    /\ ~callers[Sequential].outcome.raised
    /\ cache[Len(cache)].key = callers[Sequential].key
    /\ Len(cache) = maxsize
    /\ Cardinality(evictions) > 1

-----------------------------------------------------------------------------
(* Properties of single calls, checked under SpecBuffer *)

\* The names of the rivers of the features of a FeatureCollection.
FeatureNames(collection) ==
    {collection.features[i].properties.river_name : i \in 1..Len(collection.features)}

\* The geometry get_flood_geometry generates for a river under a scenario.
GeneratedGeometry(river, scenario) ==
    generate_flood_buffer(river,
        calculate_buffer_distance(scenario, river.avg_width_m,
                                  default_terrain_slope_tenths).km)

\* C12: every feature returned by get_flood_geometry has a geometry of type
\* "Polygon" whose coordinates hold exactly one ring, a non-empty one, and
\* properties scenario and region equal to the arguments of the call; a river
\* whose generated geometry has empty coordinates has no feature.
C12_FeatureShape ==
    (Returned /\ op = "get_flood_geometry" /\ ~ret.raised) =>
        LET features == ret.value.features
            rivers == get_river_network(arg.region)
        IN  /\ \A i \in 1..Len(features) :
                  /\ features[i].type = "Feature"
                  /\ features[i].geometry.type = "Polygon"
                  /\ Len(features[i].geometry.coordinates) = 1
                  /\ Len(features[i].geometry.coordinates[1]) > 0
                  /\ features[i].properties.scenario = arg.scenario
                  /\ features[i].properties.region = arg.region
            /\ \A r \in 1..Len(rivers) :
                  Len(GeneratedGeometry(rivers[r], arg.scenario).coordinates) = 0
                  => rivers[r].name \notin FeatureNames(ret.value)

\* A call for a region with a river of width zero and a river without
\* centerline under "0m": features are returned, but not for these two.
C12_Witness ==
    /\ Returned
    /\ op = "get_flood_geometry"
    /\ arg.scenario = "0m"
    /\ ~ret.raised
    /\ Len(ret.value.features) > 0
    /\ Len(ret.value.features) + 2 = Len(get_river_network(arg.region))

EmptyFeatureCollection == [type |-> "FeatureCollection", features |-> <<>>]

\* The region of the call has no rivers: its key is not registered, or is
\* registered with an empty list.
NoRiversRegistered ==
    \/ arg.region \notin DOMAIN RIVER_NETWORKS
    \/ Len(RIVER_NETWORKS[arg.region]) = 0

\* C13: for a region without registered rivers, an unknown region key
\* included, get_flood_geometry returns exactly the FeatureCollection with no
\* features and raises nothing, whatever the scenario value.
C13_EmptyRegionEmptyCollection ==
    (Returned /\ op = "get_flood_geometry" /\ NoRiversRegistered)
    => ret = [raised |-> FALSE, value |-> EmptyFeatureCollection]

\* A call for an unknown region with a scenario outside the table returned.
C13_Witness ==
    /\ Returned
    /\ op = "get_flood_geometry"
    /\ arg.region \notin DOMAIN RIVER_NETWORKS
    /\ arg.scenario \notin Scenarios
    /\ ~ret.raised

\* The call of calculate_buffer_distance has returned (or raised).
Calculated == Returned /\ op = "calculate_buffer_distance"

\* The scenarios in the order of their water levels.
ScenarioRank(scenario) ==
    CASE scenario = "0m" -> 0
      [] scenario = "1m" -> 1
      [] scenario = "2m" -> 2

\* C14: for a fixed non-negative width and a fixed slope (slopes at or below
\* 0.1 and below zero included) the distances are strictly ordered by the
\* scenario: buffer(0m) < buffer(1m) < buffer(2m).
C14_OrderedByScenario ==
    (Calculated /\ arg.scenario \in Scenarios /\ arg.river_width_m >= 0) =>
        /\ ~ret.raised
        /\ \A s \in Scenarios :
              LET other == calculate_buffer_distance(s, arg.river_width_m,
                                                     arg.terrain_slope_tenths)
              IN  /\ ScenarioRank(arg.scenario) < ScenarioRank(s)
                     => RatLt(ret.km, other.km)
                  /\ ScenarioRank(s) < ScenarioRank(arg.scenario)
                     => RatLt(other.km, ret.km)

\* The "1m" distance of a river of width zero on a negative slope.
C14_Witness ==
    /\ Calculated
    /\ arg.scenario = "1m"
    /\ arg.river_width_m = 0
    /\ arg.terrain_slope_tenths < 0
    /\ RatLt(RatOfInt(0), ret.km)

\* C15: for "0m" the distance is (river_width_m / 1000) x 0.8, whatever the
\* slope: calls that differ only in the slope return the same value, and the
\* base 0.1 of the table plays no part.
C15_BaseFlowIsChannelWidth ==
    (Calculated /\ arg.scenario = "0m") =>
        /\ ~ret.raised
        /\ ret.km.den > 0
        /\ ret.km.num * 10000 = ret.km.den * 8 * arg.river_width_m
        /\ \A t \in SlopeInputs :
              calculate_buffer_distance("0m", arg.river_width_m, t).km = ret.km

\* The "0m" distance of a river of width 500 on a slope below 0.1: 0.4 km.
C15_Witness ==
    /\ Calculated
    /\ arg.scenario = "0m"
    /\ arg.river_width_m = 500
    /\ arg.terrain_slope_tenths < 1
    /\ ret.km = Rat(2, 5)

\* C16: for "1m" and "2m" the distance is
\* base x (1 + river_width_m/1000) x (1 + 1/max(terrain_slope, 0.1)) with base
\* 3 and 8; a slope at or below 0.1 (zero and negative slopes included) gives
\* the result of slope 0.1, without a division by zero, and the result is
\* not negative for a positive width.
C16_FloodFormula ==
    (Calculated /\ arg.scenario \in {"1m", "2m"}) =>
        LET base == IF arg.scenario = "1m" THEN 3 ELSE 8
            m == IF arg.terrain_slope_tenths <= 1 THEN 1 ELSE arg.terrain_slope_tenths
        IN  /\ ~ret.raised
            /\ ret.km.den > 0
            /\ ret.km.num * 1000 * m
               = ret.km.den * base * (1000 + arg.river_width_m) * (m + 10)
            /\ arg.terrain_slope_tenths <= 1
               => ret.km = calculate_buffer_distance(arg.scenario,
                                                     arg.river_width_m, 1).km
            /\ arg.river_width_m > 0 => ret.km.num >= 0

\* The "2m" distance of a river of width 500 on a slope of zero: 8 x 1.5 x 11.
C16_Witness ==
    /\ Calculated
    /\ arg.scenario = "2m"
    /\ arg.river_width_m = 500
    /\ arg.terrain_slope_tenths = 0
    /\ ret.km = RatOfInt(132)

\* C17: calculate_buffer_distance rejects a scenario outside {"0m", "1m",
\* "2m"} with an error and returns no distance; get_flood_geometry called
\* with such a scenario for a region that has rivers fails with the same
\* error and stores no entry for the key in its cache.
C17_IllegalScenarioRejected ==
    /\ (Calculated /\ arg.scenario \notin Scenarios) => ret.raised
    /\ (Returned /\ op = "get_flood_geometry" /\ arg.scenario \notin Scenarios
        /\ ~NoRiversRegistered)
       => /\ ret = KeyError
          /\ <<arg.region, arg.scenario>> \notin CacheKeys(cache)

\* get_flood_geometry raised for a registered region with rivers.
C17_Witness ==
    /\ Returned
    /\ op = "get_flood_geometry"
    /\ arg.region \in Regions
    /\ arg.scenario = BadScenario
    /\ ret.raised
    /\ cache = <<>>

\* The call of generate_flood_buffer has returned.
Generated == Returned /\ op = "generate_flood_buffer"

\* C18: when buffer_km <= 0 or the river has no centerline point,
\* generate_flood_buffer returns a geometry of type "Polygon" with empty
\* coordinates and flood_prone false, whatever the flood_prone flag of the
\* river, and raises nothing.
C18_EmptyGeometry ==
    (Generated /\ (RatLe(arg.buffer_km, RatOfInt(0)) \/ Len(arg.river.coordinates) = 0))
    => /\ ret.type = "Polygon"
       /\ Len(ret.coordinates) = 0
       /\ ret.properties.flood_prone = FALSE

\* A flood-prone river with a centerline and a buffer of zero, and a
\* flood-prone river without centerline and a positive buffer.
C18_Witness ==
    /\ Generated
    /\ arg.river.flood_prone
    /\ \/ Len(arg.river.coordinates) > 0 /\ arg.buffer_km = RatOfInt(0)
       \/ Len(arg.river.coordinates) = 0 /\ RatLt(RatOfInt(0), arg.buffer_km)
    /\ Len(ret.coordinates) = 0

\* C19: no call of get_river_network, check_river_intersection,
\* calculate_buffer_distance, generate_flood_buffer or get_flood_geometry
\* changes the registry: RIVER_NETWORKS, with the name, coordinates, width
\* and flood-prone flag of every river in it, is the same after every step.
C19_RegistryUnchanged == [][RIVER_NETWORKS' = RIVER_NETWORKS]_vars

\* get_river_network has returned for a key that is not registered, and the
\* key is still not registered.
C19_Witness ==
    /\ Returned
    /\ op = "get_river_network"
    /\ arg.region \notin DOMAIN RIVER_NETWORKS
    /\ Len(ret) = 0
    /\ RIVER_NETWORKS = RiverNetworksAtImport

\* The centerline point i of the river of the call shifted by d in longitude.
ShiftedLon(i, d) ==
    <<RatAdd(RatOfInt(arg.river.coordinates[i][1]), d),
      RatOfInt(arg.river.coordinates[i][2])>>

\* C20: for a river with n >= 1 centerline points and buffer_km > 0 the ring
\* is the n centerline points in forward order shifted by -offset in
\* longitude only, then the n centerline points in backward order shifted by
\* +offset in longitude only, then the first ring point again: 2n+1 points,
\* each with the latitude of a centerline point; offset = buffer_km / 111.
C20_RingIsTwoWalls ==
    (Generated /\ Len(arg.river.coordinates) >= 1
     /\ RatLt(RatOfInt(0), arg.buffer_km))
    => LET n == Len(arg.river.coordinates)
           \* the offset in tenths of a degree
           offset == RatMul(RatDiv(arg.buffer_km, RatOfInt(km_per_degree)), RatOfInt(10))
           minus == RatSub(RatOfInt(0), offset)
       IN  /\ Len(ret.coordinates) = 1
           /\ Len(ret.coordinates[1]) = 2 * n + 1
           /\ \A i \in 1..n :
                 /\ ret.coordinates[1][i] = ShiftedLon(i, minus)
                 /\ ret.coordinates[1][n + i] = ShiftedLon(n + 1 - i, offset)
           /\ ret.coordinates[1][2 * n + 1] = ret.coordinates[1][1]
           /\ \A k \in 1..Len(ret.coordinates[1]) :
                 \E i \in 1..n :
                    ret.coordinates[1][k][2] = RatOfInt(arg.river.coordinates[i][2])

\* C21: every non-empty ring produced by generate_flood_buffer is closed, its
\* last point being equal to its first, for every river with at least one
\* centerline point and every buffer_km > 0.
C21_RingClosed ==
    (Generated /\ Len(arg.river.coordinates) >= 1
     /\ RatLt(RatOfInt(0), arg.buffer_km))
    => /\ Len(ret.coordinates) = 1
       /\ Len(ret.coordinates[1]) > 1
       /\ ret.coordinates[1][Len(ret.coordinates[1])] = ret.coordinates[1][1]

\* The ring of a river with the largest centerline and a buffer of 3 km.
C21_Witness ==
    /\ Generated
    /\ Len(arg.river.coordinates) = MaxCenterline
    /\ arg.buffer_km = RatOfInt(3)
    /\ Len(ret.coordinates) = 1
    /\ Len(ret.coordinates[1]) > 2 * MaxCenterline

-----------------------------------------------------------------------------
(* Properties of the planar primitives, checked under SpecPlanar *)

\* The call of is_point_in_polygon has returned (or raised).
PointTested == Returned /\ op = "is_point_in_polygon"

\* The point p2 of iteration i of the loop (i counted from 0).
PipPoint(i) == arg.polygon[(i % Len(arg.polygon)) + 1]

RECURSIVE PipBefore(_)
\* The loop state at the start of iteration i of the call.
PipBefore(i) ==
    IF i = 0 THEN PipStart(arg.polygon)
    ELSE PipStep(arg.point[1], arg.point[2], PipBefore(i - 1), PipPoint(i - 1))

\* Iteration i toggles the crossing count.
Toggles(i) ==
    PipStep(arg.point[1], arg.point[2], PipBefore(i), PipPoint(i)).inside
    # PipBefore(i).inside

\* The horizontal ray from (x, y) to the right meets the line through the
\* edge p1-p2 (p1y # p2y) at an x-coordinate that is >= x.
RayMeetsAtOrRightOf(x, y, p1, p2) ==
    LET d == p2[2] - p1[2]
        n == (y - p1[2]) * (p2[1] - p1[1]) + p1[1] * d
    IN  IF d > 0 THEN x * d <= n ELSE x * (-d) <= -n

\* The rule of the claim: min(p1y, p2y) <= y < max(p1y, p2y) and the ray
\* meets the edge at or to the right of the point.
RuleLowerClosed(x, y, p1, p2) ==
    /\ Min2(p1[2], p2[2]) <= y
    /\ y < Max2(p1[2], p2[2])
    /\ RayMeetsAtOrRightOf(x, y, p1, p2)

\* The rule with the other half-open test: min(p1y, p2y) < y <= max(p1y, p2y).
RuleUpperClosed(x, y, p1, p2) ==
    /\ Min2(p1[2], p2[2]) < y
    /\ y <= Max2(p1[2], p2[2])
    /\ RayMeetsAtOrRightOf(x, y, p1, p2)

\* The reference ray-casting tests: the parity of the number of edges of
\* the ring, the edge from the last point to the first included, that the
\* rule counts.
ReferenceLowerClosed(x, y, polygon) ==
    Cardinality({i \in 1..Len(polygon) :
        RuleLowerClosed(x, y, polygon[i], polygon[(i % Len(polygon)) + 1])}) % 2 = 1

ReferenceUpperClosed(x, y, polygon) ==
    Cardinality({i \in 1..Len(polygon) :
        RuleUpperClosed(x, y, polygon[i], polygon[(i % Len(polygon)) + 1])}) % 2 = 1

\* The ray meets the line through the edge p1-p2 (p1y # p2y) at an
\* x-coordinate that is > x.
RayMeetsRightOf(x, y, p1, p2) ==
    LET d == p2[2] - p1[2]
        n == (y - p1[2]) * (p2[1] - p1[1]) + p1[1] * d
    IN  IF d > 0 THEN x * d < n ELSE x * (-d) < -n

\* The point (x, y) lies on the slanted edge p1-p2, above its lower end.
OnSlantedEdge(x, y, p1, p2) ==
    /\ p1[1] # p2[1]
    /\ Min2(p1[2], p2[2]) < y
    /\ y <= Max2(p1[2], p2[2])
    /\ RayMeetsAtOrRightOf(x, y, p1, p2)
    /\ ~RayMeetsRightOf(x, y, p1, p2)

\* C22 as stated: an edge (p1, p2) toggles the crossing count exactly when
\* min(p1y, p2y) <= y < max(p1y, p2y) and the ray meets the edge at an x >=
\* the point's x, and the result is that of the reference test of this rule,
\* for every point and ring of the grid.
C22_TogglesLowerClosed ==
    PointTested =>
        /\ ~ret.raised
        /\ \A i \in 0..Len(arg.polygon) :
              Toggles(i) <=> RuleLowerClosed(arg.point[1], arg.point[2],
                                             PipBefore(i).p1, PipPoint(i))
        /\ ret.value = ReferenceLowerClosed(arg.point[1], arg.point[2], arg.polygon)

\* C22 amended: an edge (p1, p2) toggles the crossing count only when
\* min(p1y, p2y) < y <= max(p1y, p2y) and the ray meets the edge at an x >=
\* the point's x, and always when moreover the point is not on a slanted
\* edge (there the rounding of the float xinters decides); the result is
\* that of the reference test of this rule for every point and ring of the
\* grid with no slanted edge through the point, and the empty ring raises
\* IndexError.
C22_TogglesUpperClosed ==
    PointTested =>
        IF Len(arg.polygon) = 0 THEN ret = IndexError
        ELSE /\ ~ret.raised
             /\ \A i \in 0..Len(arg.polygon) :
                   /\ Toggles(i) =>
                         RuleUpperClosed(arg.point[1], arg.point[2],
                                         PipBefore(i).p1, PipPoint(i))
                   /\ ( /\ RuleUpperClosed(arg.point[1], arg.point[2],
                                            PipBefore(i).p1, PipPoint(i))
                        /\ ~OnSlantedEdge(arg.point[1], arg.point[2],
                                          PipBefore(i).p1, PipPoint(i)) )
                      => Toggles(i)
             /\ (\A i \in 0..Len(arg.polygon) :
                     ~OnSlantedEdge(arg.point[1], arg.point[2],
                                    PipBefore(i).p1, PipPoint(i)))
                => ret.value = ReferenceUpperClosed(arg.point[1], arg.point[2],
                                                    arg.polygon)

\* A point at the height of the upper end of an edge to its right, which
\* toggles, and the call returns True.
C22_Witness ==
    /\ PointTested
    /\ Len(arg.polygon) >= 3
    /\ \E i \in 1..Len(arg.polygon) :
          /\ Toggles(i)
          /\ arg.point[2] = Max2(PipBefore(i).p1[2], PipPoint(i)[2])
          /\ arg.point[1] < Min2(PipBefore(i).p1[1], PipPoint(i)[1])
    /\ ret.value = TRUE

\* C23: is_point_in_polygon returns false, and raises nothing, for every
\* polygon with fewer than 3 points (0, 1 or 2 points) and every point.
C23_FewPointsGiveFalse ==
    (PointTested /\ Len(arg.polygon) < MinRingPoints)
    => (~ret.raised /\ ret.value = FALSE)

\* C24: a horizontal edge (p1y = p2y) never toggles the crossing count,
\* also for a point lying on it; so the comparison against xinters is only
\* evaluated in an iteration that has just assigned xinters, never with the
\* value of an earlier edge and never unassigned.
C24_HorizontalEdgesNeverCount ==
    (PointTested /\ Len(arg.polygon) > 0) =>
        /\ \A i \in 0..Len(arg.polygon) :
              PipBefore(i).p1[2] = PipPoint(i)[2] => ~Toggles(i)
        /\ ~ret.stale

\* A point on a horizontal edge of a ring one of whose other edges toggles.
C24_Witness ==
    /\ PointTested
    /\ Len(arg.polygon) >= 3
    /\ \E i \in 1..Len(arg.polygon) :
          /\ PipBefore(i).p1[2] = PipPoint(i)[2]
          /\ PipBefore(i).p1[2] = arg.point[2]
          /\ Min2(PipBefore(i).p1[1], PipPoint(i)[1]) < arg.point[1]
          /\ arg.point[1] < Max2(PipBefore(i).p1[1], PipPoint(i)[1])
    /\ \E i \in 1..Len(arg.polygon) : Toggles(i)
    /\ ~ret.stale

\* The ring of the call is an axis-aligned rectangle given by its corners.
RectangleTested == PointTested /\ arg.polygon \in RectangleRings

\* The point is strictly inside (strictly outside) the bounding box of the
\* ring, which for a rectangle is the rectangle.
StrictlyInsideBox ==
    /\ SetMin(Xs(arg.polygon)) < arg.point[1]
    /\ arg.point[1] < SetMax(Xs(arg.polygon))
    /\ SetMin(Ys(arg.polygon)) < arg.point[2]
    /\ arg.point[2] < SetMax(Ys(arg.polygon))

StrictlyOutsideBox ==
    \/ arg.point[1] < SetMin(Xs(arg.polygon))
    \/ arg.point[1] > SetMax(Xs(arg.polygon))
    \/ arg.point[2] < SetMin(Ys(arg.polygon))
    \/ arg.point[2] > SetMax(Ys(arg.polygon))

\* C25: for an axis-aligned rectangle given by its 4 corners, closed or not,
\* in either winding order, is_point_in_polygon returns true for every point
\* strictly inside the rectangle and false for every point strictly outside.
C25_RectangleInsideOutside ==
    RectangleTested =>
        /\ StrictlyInsideBox => (~ret.raised /\ ret.value = TRUE)
        /\ StrictlyOutsideBox => (~ret.raised /\ ret.value = FALSE)

\* A point strictly inside an unclosed rectangle given clockwise.
C25_Witness ==
    /\ RectangleTested
    /\ Len(arg.polygon) = 4
    /\ arg.polygon[2][1] = arg.polygon[1][1]
    /\ arg.polygon[2][2] > arg.polygon[1][2]
    /\ arg.polygon[3][1] > arg.polygon[2][1]
    /\ StrictlyInsideBox
    /\ ret.value = TRUE

\* The call of segments_intersect has returned.
SegmentsTested == Returned /\ op = "segments_intersect"

\* The segments p1-p2 and p3-p4 are parallel, of positive length, and not
\* on the same line.
ParallelApart(p1, p2, p3, p4) ==
    /\ p1 # p2
    /\ p3 # p4
    /\ (p2[1] - p1[1]) * (p4[2] - p3[2]) = (p2[2] - p1[2]) * (p4[1] - p3[1])
    /\ Orient(p1, p2, p3) # 0

\* C26: segments_intersect returns true for every pair of segments that
\* properly cross (the end points of each strictly on opposite sides of the
\* line through the other) and false for every pair of parallel segments
\* that are not collinear.
C26_CrossingAndParallel ==
    SegmentsTested =>
        /\ ProperCross(arg.segments[1], arg.segments[2],
                       arg.segments[3], arg.segments[4]) => ret = TRUE
        /\ ParallelApart(arg.segments[1], arg.segments[2],
                         arg.segments[3], arg.segments[4]) => ret = FALSE

\* The diagonals (0,0)-(1,1) and (0,1)-(1,0) of the unit square.
C26_Witness ==
    /\ SegmentsTested
    /\ arg.segments = <<<<0, 0>>, <<1, 1>>, <<0, 1>>, <<1, 0>>>>
    /\ ret = TRUE

\* C27: segments_intersect is symmetric, touching, collinear and
\* zero-length segments included: the answer is the same when the two
\* segments are exchanged and when a segment is given in the other direction.
C27_Symmetric ==
    SegmentsTested =>
        /\ ret = segments_intersect(arg.segments[3], arg.segments[4],
                                    arg.segments[1], arg.segments[2])
        /\ ret = segments_intersect(arg.segments[2], arg.segments[1],
                                    arg.segments[3], arg.segments[4])

\* C29: for each of the four registered regions and each scenario of
\* {"0m", "1m", "2m"} get_flood_geometry returns exactly one feature per
\* registered river, in registration order, with river_name the name of the
\* river and buffer_km the value of calculate_buffer_distance(scenario,
\* river width, slope 2.0), which is positive also for "0m".
C29_OneFeaturePerRiver ==
    (Returned /\ op = "get_flood_geometry" /\ arg.region \in Regions
     /\ arg.scenario \in Scenarios)
    => LET rivers == RiverNetworksAtImport[arg.region]
       IN  /\ ~ret.raised
           /\ Len(ret.value.features) = Len(rivers)
           /\ \A i \in 1..Len(rivers) :
                 /\ ret.value.features[i].properties.river_name = rivers[i].name
                 /\ ret.value.features[i].properties.buffer_km
                    = calculate_buffer_distance(arg.scenario, rivers[i].avg_width_m,
                                                default_terrain_slope_tenths).km
                 /\ RatLt(RatOfInt(0), ret.value.features[i].properties.buffer_km)

\* The four features of Uttar Pradesh under "0m"; the buffer of the Ganges
\* (width 900) is 0.72 km.
C29_Witness ==
    /\ Returned
    /\ op = "get_flood_geometry"
    /\ arg.region = "Uttar Pradesh"
    /\ arg.scenario = "0m"
    /\ ~ret.raised
    /\ Len(ret.value.features) = 4
    /\ ret.value.features[1].properties.buffer_km = Rat(18, 25)

-----------------------------------------------------------------------------
(* Properties of apply_aoi_scale, checked under SpecRisk *)

\* A call of apply_aoi_scale with a non-empty AOI has returned.
RiskReturned ==
    /\ pc = "returned"
    /\ op = "apply_aoi_scale"
    /\ Len(arg.aoi) > 0

\* The riskScore of the same call made with the given scenario.
RiskScoreAt(scenario) ==
    apply_aoi_scale(arg.region, scenario, DummyBase, arg.aoi,
                    arg.shapely_available).riskScore

\* C30: for every region and every non-empty AOI the riskScore returned by
\* apply_aoi_scale is 0.0 when check_river_intersection finds no river and
\* otherwise lies in [1.0, 9.9], and it is non-decreasing in scenario depth:
\* riskScore(0m) <= riskScore(1m) <= riskScore(2m) for the same region and
\* AOI.  The code gives "0m" the multiplier of "2m", so an AOI on a river
\* scores 9.9 at 0m and 9.0 at 1m.
C30_ScoreBoundedAndMonotone ==
    RiskReturned =>
        /\ IF Len(check_river_intersection(arg.region, AllRings(arg.aoi, 1))) = 0
           THEN ret.riskScore = RatOfInt(0)
           ELSE /\ RatLe(RatOfInt(1), ret.riskScore)
                /\ RatLe(ret.riskScore, Rat(99, 10))
        /\ RatLe(RiskScoreAt("0m"), RiskScoreAt("1m"))
        /\ RatLe(RiskScoreAt("1m"), RiskScoreAt("2m"))

=============================================================================
